---- MODULE Spec2Model ----
(***************************************************************************)
(* Model of the EasyRPG Player filesystem layer: the native backend        *)
(* (filesystem_native.cpp), the SAF (bridged-handle) backend and its       *)
(* descriptor stream buffers FdStreamBufIn / FdStreamBufOut                *)
(* (filesystem_saf.cpp), the InputStream on top of them                    *)
(* (filesystem_stream.h), the configuration parameters (config_param.h)    *)
(* and the runtime patches (game_runtime_patches.cpp).                     *)
(*                                                                         *)
(* Paths are sequences of components.  File contents are the bytes         *)
(* 1, 2, 3, ... so that a byte identifies the file offset it came from.    *)
(***************************************************************************)
EXTENDS Integers, Sequences, FiniteSets, TLC

VARIABLES
    op,        \* name of the last backend / stream operation
    arg,       \* its argument (a path, a feature, an offset, a byte)
    ret,       \* its return value
    calls,     \* bridge and system calls the last operation made, in order
    entries,   \* the entries vector of the last GetDirectoryContent call
    fd,        \* the descriptor obtained from the host: state, target, offset
    inb,       \* FdStreamBufIn: alive flag and get area [gptr, egptr)
    gin,       \* observations of the input stream (position, delivered bytes)
    outb,      \* FdStreamBufOut: alive flag and put area [pbase, pptr)
    gout,      \* observations of the output stream (writes, stream state)
    param,     \* a configuration parameter: value, visibility, lock, valid set
    rd,        \* a typed read: the value persisted and the value ReadIntoObj gave
    game_config  \* Player::game_config: the parameters of the runtime patches

vars == <<op, arg, ret, calls, entries, fd, inb, gin, outb, gout, param, rd,
          game_config>>

\* the variables of the filesystem layer, and the remaining ones
fsvars == <<calls, entries, fd, inb, gin, outb, gout>>
othervars == <<param, rd, game_config>>

\* ------------------------------------------------------------------ bounds

\* std::array<char, 4096> buffer of FdStreamBufIn, scaled down
InBufSize == 3
\* std::array<char, 4096> buffer of FdStreamBufOut, scaled down
OutBufSize == 3
\* size in bytes of the regular file of the model world
MaxFile == 4
\* operations performed on one open stream buffer
MaxOps == 5
\* largest distance of a seek
MaxSeek == 2
\* largest value of the type T of a RangeConfigParam<T>; the smallest is 0
MaxVal == 3
\* number S of enumerators of an EnumConfigParam<E, S>
EnumSize == 3
\* tokens following a patch flag on the command line
MaxTokens == 1
\* keys of the INI file that have a value
MaxIniKeys == 1

\* a null jobject / a null directory tree (paths are never empty)
Null == <<>>
\* the null streambuf pointer
NullBuf == "nullptr"
EOF == -1

Min(a, b) == IF a < b THEN a ELSE b

RECURSIVE Flatten(_)
Flatten(ss) == IF ss = <<>> THEN <<>> ELSE Head(ss) \o Flatten(Tail(ss))

\* -------------------------------------------------------------- path model

\* FileFinder::MakePath: join of a base path and a sub-path
MakePath(base, path) == base \o path

Features == {"Write", "Symlink", "Other"}

\* --------------------------------------------------- native world (lstat)

NativePaths ==
    { <<"f">>, <<"d">>, <<"d", "f2">>, <<"d", "sub">>, <<"e">>,
      <<"lf">>, <<"ld">>, <<"x">>, <<"d", "x">>, <<"f2">>, <<"sub">> }

\* what the path itself is (no symlink followed)
NativeLType(p) ==
    CASE p = <<"f">> -> "File"
      [] p = <<"d">> -> "Directory"
      [] p = <<"d", "f2">> -> "File"
      [] p = <<"d", "sub">> -> "Directory"
      [] p = <<"e">> -> "Directory"
      [] p = <<"lf">> -> "LinkToFile"
      [] p = <<"ld">> -> "LinkToDirectory"
      [] OTHER -> "Missing"

\* what the path resolves to (symlinks followed)
NativeType(p) ==
    CASE NativeLType(p) = "LinkToFile" -> "File"
      [] NativeLType(p) = "LinkToDirectory" -> "Directory"
      [] OTHER -> NativeLType(p)

NativeSize(p) == IF NativeType(p) = "File" THEN MaxFile ELSE 0

\* names a directory stream yields, the pseudo-entries included
NativeDirNames(p) ==
    CASE p = <<"d">> -> <<".", "..", "f2", "sub">>
      [] p = <<"d", "sub">> -> <<".", "..">>
      [] p = <<"e">> -> <<".", "..">>
      [] p = <<"ld">> -> <<".", "..">>
      [] OTHER -> <<>>

\* Platform::File::GetType(follow_symlinks)
PlatformGetType(p, follow_symlinks) ==
    IF follow_symlinks THEN NativeType(p)
    ELSE IF NativeLType(p) \in {"LinkToFile", "LinkToDirectory"} THEN "Other"
    ELSE NativeLType(p)

PlatformIsFile(p, follow_symlinks) == PlatformGetType(p, follow_symlinks) = "File"

PlatformIsDirectory(p, follow_symlinks) ==
    PlatformGetType(p, follow_symlinks) = "Directory"

PlatformExists(p) == NativeType(p) # "Missing"

PlatformGetSize(p) == IF NativeType(p) = "Missing" THEN -1 ELSE NativeSize(p)

\* ------------------------------------------------------- native backend

\* variant: any existing path counts as a file
MutNativeIsFile(path) == PlatformExists(path)

NativeIsFile(path) == PlatformIsFile(path, FALSE)

NativeIsDirectory(dir, follow_symlinks) == PlatformIsDirectory(dir, follow_symlinks)

NativeExists(filename) == PlatformExists(filename)

NativeGetFilesize(path) == PlatformGetSize(path)

\* opened: whether open(2) / filebuf::open succeeded
NativeCreateInputStreambuffer(path, opened) == IF opened THEN "buf" ELSE NullBuf

\* variant: every feature supported
MutNativeIsFeatureSupported(f) == TRUE

NativeIsFeatureSupported(f) == f = "Write"

\* one directory entry read by Platform::Directory::Read: its d_type when the
\* filesystem reports one, "Unknown" otherwise
DirentType(dir, name) ==
    IF name \in {".", ".."} THEN "Directory"
    ELSE LET t == NativeLType(MakePath(dir, <<name>>))
         IN  IF t \in {"File", "Directory"} THEN t ELSE "Other"

\* the d_type sequences a directory stream may report for a directory
DirentTypeChoices(dir) ==
    LET names == NativeDirNames(dir)
    IN  { ts \in [1..Len(names) -> {"File", "Directory", "Other", "Unknown"}] :
            \A i \in 1..Len(names) :
                ts[i] \in {DirentType(dir, names[i]), "Unknown"} }

\* Platform::Directory: opendir succeeds on what resolves to a directory
PlatformDirectoryOpen(p) == NativeType(p) = "Directory"

\* the loop body of NativeFilesystem::GetDirectoryContent for one entry:
\* is_directory, and the probe it issued (the name as read is what is probed)
NativeClassify(name, type) ==
    IF type = "Directory" THEN [is_directory |-> TRUE, calls |-> <<>>]
    ELSE IF type = "Unknown"
         THEN [is_directory |-> NativeIsDirectory(<<name>>, TRUE),
               calls |-> <<"IsDirectory">>]
    ELSE [is_directory |-> FALSE, calls |-> <<>>]

\* variant: pseudo-entries kept
MutNativeSkip(name) == FALSE

\* the self/parent pseudo-entries are skipped
NativeSkip(name) == name = "." \/ name = ".."

RECURSIVE NativeReadAll(_, _, _)
NativeReadAll(names, types, acc) ==
    IF names = <<>> THEN acc
    ELSE IF NativeSkip(Head(names))
         THEN NativeReadAll(Tail(names), Tail(types), acc)
         ELSE LET c == NativeClassify(Head(names), Head(types))
              IN  NativeReadAll(Tail(names), Tail(types),
                      [entries |-> Append(acc.entries,
                                       [name |-> Head(names),
                                        type |-> IF c.is_directory
                                                 THEN "Directory" ELSE "Regular"]),
                       calls |-> acc.calls \o c.calls])

NativeGetDirectoryContent(path, types, ents) ==
    IF ~PlatformDirectoryOpen(path)
    THEN [ret |-> FALSE, entries |-> ents, calls |-> <<>>]
    ELSE LET r == NativeReadAll(NativeDirNames(path), types,
                      [entries |-> ents, calls |-> <<>>])
         IN  [ret |-> TRUE, entries |-> r.entries, calls |-> r.calls]

\* ------------------------------------------- SAF world and the host bridge

SafBase == <<"content">>

SafPaths == { <<"f">>, <<"z">>, <<"d">>, <<"e">>, <<"g">>, <<"n">> }

\* what the host knows about a combined path: "none" is a path the host
\* gives no handle for, "ghost" a handle whose target does not exist
HostKind(full) ==
    CASE full = MakePath(SafBase, <<"f">>) -> "file"
      [] full = MakePath(SafBase, <<"z">>) -> "file"
      [] full = MakePath(SafBase, <<"d">>) -> "dir"
      [] full = MakePath(SafBase, <<"e">>) -> "dir"
      [] full = MakePath(SafBase, <<"g">>) -> "ghost"
      [] OTHER -> "none"

HostSize(full) == IF full = MakePath(SafBase, <<"f">>) THEN MaxFile ELSE 0

\* EasyRpgPlayerActivity.getHandleForPath
HostGetHandleForPath(full) == IF HostKind(full) = "none" THEN Null ELSE full

\* SafFile.isFile / isDirectory / exists / getFilesize, as jboolean / jlong
HostIsFile(h) == IF HostKind(h) = "file" THEN 1 ELSE 0

HostIsDirectory(h) == IF HostKind(h) = "dir" THEN 1 ELSE 0

HostExists(h) == IF HostKind(h) \in {"file", "dir"} THEN 1 ELSE 0

HostGetFilesize(h) == IF HostKind(h) = "ghost" THEN -1 ELSE HostSize(h)

\* SafFile.getDirectoryContent: (names, types) of a directory, null otherwise
HostGetDirectoryContent(h) ==
    IF HostKind(h) # "dir" THEN [isnull |-> TRUE, names |-> <<>>, types |-> <<>>]
    ELSE IF h = MakePath(SafBase, <<"d">>)
         THEN [isnull |-> FALSE, names |-> <<"a", "s", "b">>, types |-> <<0, 1, 0>>]
         ELSE [isnull |-> FALSE, names |-> <<>>, types |-> <<>>]

\* the descriptors createInputFileDescriptor may answer for a handle: invalid, or a
\* descriptor; an inexistent target may yield a descriptor of a directory
HostInputFdChoices(h) ==
    CASE HostKind(h) = "file" -> {"fd", "invalid"}
      [] HostKind(h) = "ghost" -> {"dirfd", "invalid"}
      [] OTHER -> {"dirfd", "invalid"}

\* the test fd < 0 on what the host returned
FdNegative(hfd) == hfd = "invalid"

\* ------------------------------------------------------------ SAF backend

get_jni_handle(path) == HostGetHandleForPath(MakePath(SafBase, path))

SafIsFile(path) ==
    LET obj == get_jni_handle(path)
    IN  IF obj = Null
        THEN [ret |-> FALSE, calls |-> <<"getHandleForPath">>]
        ELSE [ret |-> HostIsFile(obj) > 0, calls |-> <<"getHandleForPath", "isFile">>]

\* variant: the host is asked even when the handle is null
MutSafIsDirectory(dir) ==
    LET obj == get_jni_handle(dir)
    IN  [ret |-> IF obj = Null THEN FALSE ELSE HostIsDirectory(obj) > 0,
         calls |-> <<"getHandleForPath", "isDirectory">>]

SafIsDirectory(dir) ==
    LET obj == get_jni_handle(dir)
    IN  IF obj = Null
        THEN [ret |-> FALSE, calls |-> <<"getHandleForPath">>]
        ELSE [ret |-> HostIsDirectory(obj) > 0,
              calls |-> <<"getHandleForPath", "isDirectory">>]

SafExists(filename) ==
    LET obj == get_jni_handle(filename)
    IN  IF obj = Null
        THEN [ret |-> FALSE, calls |-> <<"getHandleForPath">>]
        ELSE [ret |-> HostExists(obj) > 0, calls |-> <<"getHandleForPath", "exists">>]

\* variant: size 0 for a null handle
MutSafGetFilesize(path) ==
    LET obj == get_jni_handle(path)
    IN  IF obj = Null
        THEN [ret |-> 0, calls |-> <<"getHandleForPath">>]
        ELSE [ret |-> HostGetFilesize(obj), calls |-> <<"getHandleForPath", "getFilesize">>]

SafGetFilesize(path) ==
    LET obj == get_jni_handle(path)
    IN  IF obj = Null
        THEN [ret |-> -1, calls |-> <<"getHandleForPath">>]
        ELSE [ret |-> HostGetFilesize(obj), calls |-> <<"getHandleForPath", "getFilesize">>]

\* variant: the element handles are kept until the loop has ended
MutSafElements(names, types, acc) ==
    [entries |-> acc.entries \o
                 [i \in 1..Len(names) |->
                     [name |-> names[i],
                      type |-> IF types[i] = 0 THEN "Regular" ELSE "Directory"]],
     calls |-> acc.calls \o
               [i \in 1..(2 * Len(names)) |->
                   IF i % 2 = 1 THEN "GetObjectArrayElement" ELSE "GetStringUTFChars"] \o
               [i \in 1..(2 * Len(names)) |->
                   IF i % 2 = 1 THEN "ReleaseStringUTFChars" ELSE "DeleteLocalRef"]]

\* the element loop of SafFilesystem::GetDirectoryContent
RECURSIVE SafElements(_, _, _)
SafElements(names, types, acc) ==
    IF names = <<>> THEN acc
    ELSE SafElements(Tail(names), Tail(types),
             [entries |-> Append(acc.entries,
                              [name |-> Head(names),
                               type |-> IF Head(types) = 0 THEN "Regular"
                                        ELSE "Directory"]),
              calls |-> acc.calls \o <<"GetObjectArrayElement", "GetStringUTFChars",
                                       "ReleaseStringUTFChars", "DeleteLocalRef">>])

SafGetDirectoryContent(path, ents) ==
    LET obj == get_jni_handle(path)
    IN  IF obj = Null
        THEN [ret |-> FALSE, entries |-> ents, calls |-> <<"getHandleForPath">>]
        ELSE LET directory_tree == HostGetDirectoryContent(obj)
             IN  IF directory_tree.isnull
                 THEN [ret |-> FALSE, entries |-> ents,
                       calls |-> <<"getHandleForPath", "getDirectoryContent">>]
                 ELSE LET r == SafElements(directory_tree.names, directory_tree.types,
                                   [entries |-> ents,
                                    calls |-> <<"getHandleForPath",
                                                "getDirectoryContent">>])
                      IN  [ret |-> TRUE, entries |-> r.entries, calls |-> r.calls]

SafIsFeatureSupported(f) == f = "Write"

\* ------------------------------------------------- descriptors (POSIX side)

NoFd == [st |-> "none", kind |-> "none", size |-> 0, pos |-> 0, closes |-> 0]

\* read(fd, buf, count) on a descriptor: the results the kernel may give.
\* A directory descriptor fails (EISDIR); a file read may fail, or transfer
\* between one and count of the bytes left, or 0 at end of file.
ReadChoices(f, count) ==
    IF f.kind = "dir" THEN {-1}
    ELSE IF f.pos >= f.size THEN {-1, 0}
    ELSE {-1} \cup (1..Min(count, f.size - f.pos))

\* the bytes a successful read of n bytes stores in the buffer
ReadBytes(f, n) == [i \in 1..n |-> f.pos + i]

\* lseek(fd, offset, whence): the new offset, or -1 with the offset unchanged
\* when the target would be negative
Lseek(f, offset, whence) ==
    LET target == CASE whence = "SEEK_SET" -> offset
                    [] whence = "SEEK_CUR" -> f.pos + offset
                    [] whence = "SEEK_END" -> f.size + offset
    IN  IF target < 0 THEN [ret |-> -1, pos |-> f.pos]
        ELSE [ret |-> target, pos |-> target]

CppSeekdirToCSeekdir(origin) ==
    CASE origin = "beg" -> "SEEK_SET"
      [] origin = "cur" -> "SEEK_CUR"
      [] origin = "end" -> "SEEK_END"

\* ---------------------------------------------------------- FdStreamBufIn

\* size_cached / size are the InputStream's cache of GetSize
NoIn == [alive |-> FALSE, get |-> <<>>, size_cached |-> FALSE, size |-> 0]

NoOut == [alive |-> FALSE, put |-> <<>>]

\* observations of the output stream: the low-level writes (bytes requested,
\* count accepted), the bytes the caller's writes accepted, the std::ostream
\* error state, and what the last sync / overflow returned and discarded
NoGout == [wlog |-> <<>>, sent |-> <<>>, bad |-> FALSE, short |-> FALSE,
           shortBefore |-> FALSE, rc |-> 0, dropped |-> 0, flushes |-> 0,
           overflows |-> 0, ops |-> 0]

\* observations of the input stream: the file offset of the first byte
\* delivered since the last seek and the bytes delivered since, the probe
\* read's result, counts of low-level reads and of seeks, the file offset of
\* the last low-level read, and for the last seek the position before it, the
\* unread length before it and the offset it handed to lseek; for the last
\* refill the count it asked of read, read's result and whether it logged
NoGin == [origin |-> 0, consumed |-> <<>>, probe |-> 0, nreads |-> 0, nseeks |-> 0,
          readAt |-> 0, ops |-> 0, pre |-> 0, unread |-> 0, lseekOff |-> 0,
          rcount |-> 0, rres |-> 0, logged |-> FALSE]

\* variant: the probe's bytes are not made the get area
MutFdStreamBufIn(buffer, bytes_read) == <<>>

\* the constructor: setg(buffer_start, buffer_start, buffer_start + bytes_read);
\* the value is the get area [gptr, egptr)
FdStreamBufIn(buffer, bytes_read) == SubSeq(buffer, 1, bytes_read)

\* the count underflow asks of read: buffer.size()
UnderflowCount == InBufSize

\* variant: the whole buffer is made the get area, whatever read returned
MutUnderflow(f, get, res) ==
    IF res = 0 THEN [get |-> get, ret |-> EOF, log |-> FALSE]
    ELSE IF res < 0 THEN [get |-> get, ret |-> EOF, log |-> TRUE]
    ELSE [get |-> ReadBytes(f, UnderflowCount), ret |-> ReadBytes(f, res)[1],
          log |-> FALSE]

\* underflow() given the result res of its one read: the new get area, the
\* value returned and whether Output::Debug was called
underflow(f, get, res) ==
    IF res = 0 THEN [get |-> get, ret |-> EOF, log |-> FALSE]
    ELSE IF res < 0 THEN [get |-> get, ret |-> EOF, log |-> TRUE]
    ELSE [get |-> ReadBytes(f, res), ret |-> ReadBytes(f, res)[1], log |-> FALSE]

\* variant: no correction by the unread length
MutSeekoffOffset(offset, dir, get) == offset

\* variant: the unread length is added instead of subtracted
MutSeekoffOffsetSign(offset, dir, get) ==
    IF dir = "cur" THEN offset + Len(get) ELSE offset

\* seekoff: the offset handed to lseek; gptr() - egptr() is minus the unread
\* length of the get area
SeekoffOffset(offset, dir, get) ==
    IF dir = "cur" THEN offset + (0 - Len(get)) ELSE offset

\* offsets the model seeks by
SeekOffsets(dir) ==
    CASE dir = "beg" -> 0..MaxSeek
      [] dir = "cur" -> (0 - MaxSeek)..MaxSeek
      [] dir = "end" -> (0 - MaxSeek)..0

\* variant: an empty probe counts as a failure
MutProbeFailed(bytes_read) == bytes_read <= 0

\* variant: the probe's result is not examined
MutProbeNeverFailed(bytes_read) == FALSE

\* the probe read's result is an error
ProbeFailed(bytes_read) == bytes_read < 0

\* SafFilesystem::CreateInputStreambuffer, with the host's answer hfd to
\* createInputFileDescriptor and the probe read's result bytes_read
SafCreateInputStreambuffer(path, hfd, bytes_read) ==
    LET obj == get_jni_handle(path)
        newfd == [st |-> "open", kind |-> IF hfd = "fd" THEN "file" ELSE "dir",
                  size |-> IF obj = Null THEN 0 ELSE HostSize(obj), pos |-> 0,
                  closes |-> 0]
    IN  /\ op' = "CreateInputStreambuffer"
        /\ arg' = [fs |-> "saf", path |-> path, hfd |-> hfd]
        /\ entries' = <<>>
        /\ outb' = outb
        /\ gout' = NoGout
        /\ UNCHANGED othervars
        /\ IF obj = Null
           THEN /\ ret' = NullBuf
                /\ calls' = <<"getHandleForPath">>
                /\ fd' = NoFd /\ inb' = NoIn /\ gin' = NoGin
           ELSE IF FdNegative(hfd)
           THEN /\ ret' = NullBuf
                /\ calls' = <<"getHandleForPath", "createInputFileDescriptor">>
                /\ fd' = NoFd /\ inb' = NoIn /\ gin' = NoGin
           ELSE IF ProbeFailed(bytes_read)
           THEN /\ ret' = NullBuf
                /\ calls' = <<"getHandleForPath", "createInputFileDescriptor",
                              "read", "close">>
                /\ fd' = [newfd EXCEPT !.st = "closed", !.closes = 1]
                /\ inb' = NoIn
                /\ gin' = [NoGin EXCEPT !.probe = bytes_read, !.nreads = 1]
           ELSE /\ ret' = "buf"
                /\ calls' = <<"getHandleForPath", "createInputFileDescriptor", "read">>
                /\ fd' = [newfd EXCEPT !.pos = bytes_read]
                /\ inb' = [NoIn EXCEPT
                             !.alive = TRUE,
                             !.get = FdStreamBufIn(ReadBytes(newfd, bytes_read),
                                                   bytes_read)]
                /\ gin' = [NoGin EXCEPT !.probe = bytes_read, !.nreads = 1]

\* the read results possible for the probe of a fresh descriptor hfd of obj
ProbeChoices(path, hfd) ==
    LET obj == get_jni_handle(path)
    IN  IF obj = Null \/ FdNegative(hfd) THEN {0}
        ELSE ReadChoices([kind |-> IF hfd = "fd" THEN "file" ELSE "dir",
                          size |-> HostSize(obj), pos |-> 0], InBufSize)

\* no configuration parameter constructed, no typed read made
NoParam == [kind |-> "none", value |-> 0, visible |-> TRUE, locked |-> FALSE,
            min |-> 0, max |-> 0, valid |-> {}]
NoRd == [stage |-> "none", type |-> "none", host |-> "none", value |-> 0,
         bytes |-> <<>>, obj |-> 0, ok |-> FALSE]

\* no stream buffer is alive
Idle == ~inb.alive /\ ~outb.alive

\* no stream buffer has been created yet: the stateless queries of the
\* backends are explored from here only
Pristine ==
    Idle /\ fd = NoFd /\ gin = NoGin /\ gout = NoGout /\ param = NoParam /\ rd = NoRd

DoSafCreateInputStreambuffer ==
    /\ Idle
    /\ \E path \in SafPaths :
         \E hfd \in (IF get_jni_handle(path) = Null THEN {"invalid"}
                     ELSE HostInputFdChoices(get_jni_handle(path))) :
           \E n \in ProbeChoices(path, hfd) :
             SafCreateInputStreambuffer(path, hfd, n)

\* one byte taken by the reader (sbumpc): from the get area, or through
\* uflow, which calls underflow and then advances gptr by one
InGet(res) ==
    /\ inb.alive /\ gin.ops < MaxOps
    /\ op' = "sbumpc"
    /\ arg' = 0
    /\ UNCHANGED <<entries, outb, gout, param, rd, game_config>>
    /\ IF inb.get # <<>>
       THEN /\ ret' = Head(inb.get)
            /\ calls' = <<>>
            /\ inb' = [inb EXCEPT !.get = Tail(inb.get)]
            /\ fd' = fd
            /\ gin' = [gin EXCEPT !.consumed = Append(@, Head(inb.get)),
                                  !.ops = @ + 1,
                                  !.pre = 0, !.unread = 0, !.lseekOff = 0,
                                  !.rcount = 0, !.rres = 0, !.logged = FALSE]
       ELSE LET u == underflow(fd, inb.get, res)
            IN  /\ ret' = u.ret
                /\ calls' = <<"read">>
                /\ fd' = [fd EXCEPT !.pos = IF res > 0 THEN @ + res ELSE @]
                /\ inb' = [inb EXCEPT !.get = IF u.ret = EOF THEN u.get
                                              ELSE Tail(u.get)]
                /\ gin' = [gin EXCEPT !.consumed = IF u.ret = EOF THEN @
                                                   ELSE Append(@, u.ret),
                                      !.nreads = @ + 1,
                                      !.readAt = fd.pos,
                                      !.ops = @ + 1,
                                      !.pre = 0, !.unread = 0, !.lseekOff = 0,
                                      !.rcount = UnderflowCount, !.rres = res,
                                      !.logged = u.log]

DoInGet ==
    \E res \in (IF inb.get # <<>> THEN {0} ELSE ReadChoices(fd, UnderflowCount)) :
        InGet(res)

\* variant: a seek that stays in place keeps the window
MutSeekoffGetArea(get, offset, dir) ==
    IF dir = "cur" /\ offset = 0 THEN get ELSE <<>>

\* the get area seekoff leaves: setg(buffer_start, buffer_end, buffer_end)
SeekoffGetArea(get, offset, dir) == <<>>

\* seekoff as a function of the descriptor f and the get area: the value
\* returned, the descriptor and the get area afterwards
pubseekoff(f, get, offset, dir) ==
    LET off == SeekoffOffset(offset, dir, get)
        res == Lseek(f, off, CppSeekdirToCSeekdir(dir))
    IN  [ret |-> res.ret, f |-> [f EXCEPT !.pos = res.pos],
         get |-> SeekoffGetArea(get, offset, dir)]

\* seekoff(offset, dir, mode); seekpos(pos) is seekoff(pos, beg)
seekoff(offset, dir) ==
    LET off == SeekoffOffset(offset, dir, inb.get)
        res == Lseek(fd, off, CppSeekdirToCSeekdir(dir))
    IN  /\ inb.alive /\ gin.ops < MaxOps
        /\ op' = "seekoff"
        /\ arg' = [offset |-> offset, dir |-> dir]
        /\ ret' = res.ret
        /\ calls' = <<"lseek">>
        /\ fd' = [fd EXCEPT !.pos = res.pos]
        /\ inb' = [inb EXCEPT !.get = SeekoffGetArea(inb.get, offset, dir)]
        /\ gin' = [gin EXCEPT !.origin = res.pos, !.consumed = <<>>,
                              !.nseeks = @ + 1, !.ops = @ + 1,
                              !.pre = gin.origin + Len(gin.consumed),
                              !.unread = Len(inb.get), !.lseekOff = off,
                              !.rcount = 0, !.rres = 0, !.logged = FALSE]
        /\ UNCHANGED <<entries, outb, gout, param, rd, game_config>>

DoSeekoff ==
    \E dir \in {"beg", "cur", "end"} : \E offset \in SeekOffsets(dir) :
        seekoff(offset, dir)

\* the logical read position: the file offset of the next byte the reader gets
Position == fd.pos - Len(inb.get)

\* InputStream::GetSize on the stream buffer: the cached size, or on the first
\* call the position is noted, the end is sought and its offset recorded, and
\* the noted position is sought back
GetSize ==
    /\ inb.alive /\ gin.ops < MaxOps
    /\ op' = "GetSize"
    /\ arg' = 0
    /\ UNCHANGED <<entries, outb, gout, param, rd, game_config>>
    /\ IF inb.size_cached
       THEN /\ ret' = inb.size
            /\ calls' = <<>>
            /\ fd' = fd
            /\ inb' = inb
            /\ gin' = [gin EXCEPT !.ops = @ + 1, !.pre = Position,
                                  !.unread = Len(inb.get), !.lseekOff = 0,
                                  !.rcount = 0, !.rres = 0, !.logged = FALSE]
       ELSE LET cur == pubseekoff(fd, inb.get, 0, "cur")
                end == pubseekoff(cur.f, cur.get, 0, "end")
                back == pubseekoff(end.f, end.get, cur.ret, "beg")
            IN  /\ ret' = end.ret
                /\ calls' = <<"lseek", "lseek", "lseek">>
                /\ fd' = back.f
                /\ inb' = [inb EXCEPT !.get = back.get, !.size_cached = TRUE,
                                      !.size = end.ret]
                /\ gin' = [gin EXCEPT !.origin = back.f.pos, !.consumed = <<>>,
                                      !.nseeks = @ + 3, !.ops = @ + 1,
                                      !.pre = Position,
                                      !.unread = Len(inb.get), !.lseekOff = 0,
                                      !.rcount = 0, !.rres = 0, !.logged = FALSE]

\* InputStream::GetPosition on the stream buffer: a seek by 0 from the current
\* position, whose result is the position
GetPosition ==
    LET cur == pubseekoff(fd, inb.get, 0, "cur")
    IN  /\ inb.alive /\ gin.ops < MaxOps
        /\ op' = "GetPosition"
        /\ arg' = 0
        /\ ret' = cur.ret
        /\ calls' = <<"lseek">>
        /\ fd' = cur.f
        /\ inb' = [inb EXCEPT !.get = cur.get]
        /\ gin' = [gin EXCEPT !.origin = cur.f.pos, !.consumed = <<>>,
                              !.nseeks = @ + 1, !.ops = @ + 1,
                              !.pre = Position,
                              !.unread = Len(inb.get), !.lseekOff = 0,
                              !.rcount = 0, !.rres = 0, !.logged = FALSE]
        /\ UNCHANGED <<entries, outb, gout, param, rd, game_config>>

\* variant: the destructor leaves the descriptor open
MutInDtor(f) == f

\* ~FdStreamBufIn on descriptor f: close(fd)
InDtor(f) == [NoFd EXCEPT !.st = "closed", !.closes = f.closes + 1]

\* ~FdStreamBufIn: close(fd)
DestroyIn ==
    /\ inb.alive
    /\ op' = "~FdStreamBufIn"
    /\ arg' = 0
    /\ ret' = 0
    /\ calls' = <<"close">>
    /\ fd' = InDtor(fd)
    /\ inb' = NoIn
    /\ gin' = NoGin
    /\ UNCHANGED <<entries, outb, gout, param, rd, game_config>>

\* --------------------------------------------------------- FdStreamBufOut

\* setp(buffer_start, buffer_end) with buffer_end = &buffer.back(): the put
\* area holds one byte less than the array
PutCapacity == OutBufSize - 1

\* write(fd, buf, len): -1, or the count accepted
WriteChoices(len) == (-1)..len

\* the host's answers to createOutputFileDescriptor
HostOutputFdChoices(h) == IF HostKind(h) = "dir" THEN {"invalid"} ELSE {"fd", "invalid"}

SafCreateOutputStreambuffer(path, append, hfd) ==
    LET obj == get_jni_handle(path)
    IN  /\ op' = "CreateOutputStreambuffer"
        /\ arg' = [fs |-> "saf", path |-> path]
        /\ entries' = <<>>
        /\ inb' = inb
        /\ gin' = NoGin
        /\ gout' = NoGout
        /\ UNCHANGED othervars
        /\ IF obj = Null
           THEN /\ ret' = NullBuf
                /\ calls' = <<"getHandleForPath">>
                /\ fd' = NoFd /\ outb' = NoOut
           ELSE IF FdNegative(hfd)
           THEN /\ ret' = NullBuf
                /\ calls' = <<"getHandleForPath", "createOutputFileDescriptor">>
                /\ fd' = NoFd /\ outb' = NoOut
           ELSE /\ ret' = "buf"
                /\ calls' = <<"getHandleForPath", "createOutputFileDescriptor">>
                /\ fd' = [st |-> "open", kind |-> "file", size |-> 0, pos |-> 0,
                          closes |-> 0]
                /\ outb' = [alive |-> TRUE, put |-> <<>>]

DoSafCreateOutputStreambuffer ==
    /\ Idle
    /\ \E path \in SafPaths : \E append \in BOOLEAN :
         \E hfd \in (IF get_jni_handle(path) = Null THEN {"invalid"}
                     ELSE HostOutputFdChoices(get_jni_handle(path))) :
           SafCreateOutputStreambuffer(path, append, hfd)

\* variant: a short write is not reported
MutSync(put, res) ==
    LET len == Len(put)
    IN  IF len = 0 THEN [rc |-> 0, put |-> put, writes |-> <<>>, dropped |-> 0]
        ELSE [rc |-> 0,
              put |-> <<>>,
              writes |-> << [req |-> put, acc |-> res] >>,
              dropped |-> IF res < 0 THEN len ELSE len - res]

\* sync() given the result res of its write: return code, the put area
\* afterwards, the write made and the number of buffered bytes discarded
sync(put, res) ==
    LET len == Len(put)
    IN  IF len = 0 THEN [rc |-> 0, put |-> put, writes |-> <<>>, dropped |-> 0]
        ELSE [rc |-> IF res < len THEN -1 ELSE 0,
              put |-> <<>>,
              writes |-> << [req |-> put, acc |-> res] >>,
              dropped |-> IF res < 0 THEN len ELSE len - res]

\* variant: the byte is written although the flush failed
MutOverflow(put, c, res1, res2) ==
    LET s == sync(put, res1)
    IN  IF res2 < 1 \/ s.rc < 0
        THEN [rc |-> EOF, put |-> s.put,
              writes |-> s.writes \o << [req |-> <<c>>, acc |-> res2] >>,
              dropped |-> 1]
        ELSE [rc |-> c, put |-> s.put,
              writes |-> s.writes \o << [req |-> <<c>>, acc |-> res2] >>,
              dropped |-> 0]

\* overflow(c) for a byte c, given the results res1 of sync's write and res2
\* of the write of c
overflow(put, c, res1, res2) ==
    LET s == sync(put, res1)
    IN  IF s.rc < 0
        THEN [rc |-> EOF, put |-> s.put, writes |-> s.writes, dropped |-> s.dropped + 1]
        ELSE IF res2 < 1
        THEN [rc |-> EOF, put |-> s.put,
              writes |-> s.writes \o << [req |-> <<c>>, acc |-> res2] >>,
              dropped |-> 1]
        ELSE [rc |-> c, put |-> s.put,
              writes |-> s.writes \o << [req |-> <<c>>, acc |-> res2] >>,
              dropped |-> 0]

IsShort(w) == w.acc < Len(w.req)

AnyShort(ws) == \E i \in 1..Len(ws) : IsShort(ws[i])

CallNames(ws) == [i \in 1..Len(ws) |-> "write"]

\* std::ostream::put(c) on the OutputStream: nothing is attempted once the
\* stream state is not good; sputc stores c or calls overflow(c)
OutPut(res1, res2) ==
    LET c == gout.ops + 1
    IN  /\ outb.alive /\ gout.ops < MaxOps
        /\ op' = "put"
        /\ arg' = c
        /\ UNCHANGED <<entries, inb, gin, fd, param, rd, game_config>>
        /\ IF gout.bad
           THEN /\ ret' = EOF
                /\ calls' = <<>>
                /\ outb' = outb
                /\ gout' = [gout EXCEPT !.ops = @ + 1, !.shortBefore = gout.short,
                                        !.rc = 0, !.dropped = 0]
           ELSE IF Len(outb.put) < PutCapacity
           THEN /\ ret' = c
                /\ calls' = <<>>
                /\ outb' = [outb EXCEPT !.put = Append(@, c)]
                /\ gout' = [gout EXCEPT !.ops = @ + 1, !.shortBefore = gout.short,
                                        !.sent = Append(@, c), !.rc = 0, !.dropped = 0]
           ELSE LET o == overflow(outb.put, c, res1, res2)
                IN  /\ ret' = o.rc
                    /\ calls' = CallNames(o.writes)
                    /\ outb' = [outb EXCEPT !.put = o.put]
                    /\ gout' = [gout EXCEPT !.ops = @ + 1,
                                   !.shortBefore = gout.short,
                                   !.short = @ \/ AnyShort(o.writes),
                                   !.bad = @ \/ o.rc = EOF,
                                   !.wlog = @ \o o.writes,
                                   !.sent = IF o.rc = EOF THEN @ ELSE Append(@, c),
                                   !.rc = o.rc, !.dropped = o.dropped,
                                   !.overflows = @ + 1]

DoOutPut ==
    IF outb.alive /\ ~gout.bad /\ Len(outb.put) >= PutCapacity
    THEN \E res1 \in WriteChoices(Len(outb.put)) : \E res2 \in WriteChoices(1) :
             OutPut(res1, res2)
    ELSE OutPut(0, 0)

\* std::ostream::flush() on the OutputStream: pubsync(), badbit when it fails
OutFlush(res) ==
    /\ outb.alive /\ gout.ops < MaxOps
    /\ op' = "flush"
    /\ arg' = 0
    /\ UNCHANGED <<entries, inb, gin, fd, param, rd, game_config>>
    /\ IF gout.bad
       THEN /\ ret' = -1
            /\ calls' = <<>>
            /\ outb' = outb
            /\ gout' = [gout EXCEPT !.ops = @ + 1, !.shortBefore = gout.short,
                                    !.rc = 0, !.dropped = 0]
       ELSE LET s == sync(outb.put, res)
            IN  /\ ret' = s.rc
                /\ calls' = CallNames(s.writes)
                /\ outb' = [outb EXCEPT !.put = s.put]
                /\ gout' = [gout EXCEPT !.ops = @ + 1,
                               !.shortBefore = gout.short,
                               !.short = @ \/ AnyShort(s.writes),
                               !.bad = @ \/ s.rc < 0,
                               !.wlog = @ \o s.writes,
                               !.rc = s.rc, !.dropped = s.dropped,
                               !.flushes = @ + 1]

DoOutFlush == \E res \in WriteChoices(Len(outb.put)) : OutFlush(res)

\* variant: the destructor does not flush
MutDestructorSync(put, res) ==
    [rc |-> 0, put |-> put, writes |-> <<>>, dropped |-> Len(put)]

\* the destructor's flush
DestructorSync(put, res) == sync(put, res)

\* ~FdStreamBufOut: sync(); close(fd)
DestroyOut(res) ==
    LET s == DestructorSync(outb.put, res)
    IN  /\ outb.alive
        /\ op' = "~FdStreamBufOut"
        /\ arg' = 0
        /\ ret' = 0
        /\ calls' = CallNames(s.writes) \o <<"close">>
        /\ fd' = [fd EXCEPT !.st = "closed", !.closes = @ + 1]
        /\ outb' = NoOut
        /\ gout' = [gout EXCEPT !.shortBefore = gout.short,
                                !.short = @ \/ AnyShort(s.writes),
                                !.wlog = @ \o s.writes,
                                !.rc = s.rc, !.dropped = s.dropped]
        /\ UNCHANGED <<entries, inb, gin, param, rd, game_config>>

DoDestroyOut == \E res \in WriteChoices(Len(outb.put)) : DestroyOut(res)

\* ------------------------------------------------ backend query operations

\* what open(2) / filebuf::open may answer for a path
NativeOpenChoices(path) == IF NativeType(path) = "Missing" THEN {FALSE} ELSE {TRUE, FALSE}

Query(name, fs, path, r, cs, es) ==
    /\ Pristine
    /\ op' = name
    /\ arg' = [fs |-> fs, path |-> path]
    /\ ret' = r
    /\ calls' = cs
    /\ entries' = es
    /\ UNCHANGED <<fd, inb, gin, outb, gout, param, rd, game_config>>

DoNativeIsFile ==
    \E path \in NativePaths :
        Query("IsFile", "native", path, NativeIsFile(path), <<>>, <<>>)

DoNativeIsDirectory ==
    \E path \in NativePaths : \E follow_symlinks \in BOOLEAN :
        Query(IF follow_symlinks THEN "IsDirectory" ELSE "IsDirectoryNoFollow",
              "native", path, NativeIsDirectory(path, follow_symlinks), <<>>, <<>>)

DoNativeExists ==
    \E path \in NativePaths :
        Query("Exists", "native", path, NativeExists(path), <<>>, <<>>)

DoNativeGetFilesize ==
    \E path \in NativePaths :
        Query("GetFilesize", "native", path, NativeGetFilesize(path), <<>>, <<>>)

DoNativeCreateInputStreambuffer ==
    \E path \in NativePaths : \E opened \in NativeOpenChoices(path) :
        Query("CreateInputStreambuffer", "native", path,
              NativeCreateInputStreambuffer(path, opened), <<>>, <<>>)

DoNativeGetDirectoryContent ==
    \E path \in NativePaths : \E types \in DirentTypeChoices(path) :
        LET r == NativeGetDirectoryContent(path, types, <<>>)
        IN  /\ Pristine
            /\ op' = "GetDirectoryContent"
            /\ arg' = [fs |-> "native", path |-> path, types |-> types]
            /\ ret' = r.ret
            /\ calls' = r.calls
            /\ entries' = r.entries
            /\ UNCHANGED <<fd, inb, gin, outb, gout, param, rd, game_config>>

DoNativeIsFeatureSupported ==
    \E f \in Features :
        Query("IsFeatureSupported", "native", f, NativeIsFeatureSupported(f), <<>>,
              <<>>)

\* a caller asking Exists, IsFile and IsDirectory of one path in turn
DoNativeProbe ==
    \E path \in NativePaths : \E follow_symlinks \in BOOLEAN :
        Query("Probe", "native", path,
              [exists |-> NativeExists(path), isFile |-> NativeIsFile(path),
               isDirectory |-> NativeIsDirectory(path, follow_symlinks)],
              <<>>, <<>>)

DoSafProbe ==
    \E path \in SafPaths :
        Query("Probe", "saf", path,
              [exists |-> SafExists(path).ret, isFile |-> SafIsFile(path).ret,
               isDirectory |-> SafIsDirectory(path).ret],
              SafExists(path).calls \o SafIsFile(path).calls \o SafIsDirectory(path).calls,
              <<>>)

DoSafIsFile ==
    \E path \in SafPaths :
        LET r == SafIsFile(path)
        IN  Query("IsFile", "saf", path, r.ret, r.calls, <<>>)

DoSafIsDirectory ==
    \E path \in SafPaths :
        LET r == SafIsDirectory(path)
        IN  Query("IsDirectory", "saf", path, r.ret, r.calls, <<>>)

DoSafExists ==
    \E path \in SafPaths :
        LET r == SafExists(path)
        IN  Query("Exists", "saf", path, r.ret, r.calls, <<>>)

DoSafGetFilesize ==
    \E path \in SafPaths :
        LET r == SafGetFilesize(path)
        IN  Query("GetFilesize", "saf", path, r.ret, r.calls, <<>>)

DoSafGetDirectoryContent ==
    \E path \in SafPaths :
        LET r == SafGetDirectoryContent(path, <<>>)
        IN  Query("GetDirectoryContent", "saf", path, r.ret, r.calls, r.entries)

DoSafIsFeatureSupported ==
    \E f \in Features :
        Query("IsFeatureSupported", "saf", f, SafIsFeatureSupported(f), <<>>, <<>>)

\* ------------------------------------------- configuration parameters
\* (config_param.h).  A parameter is a record: kind ("Range", "Bool", "Enum",
\* "Plain"), _value, _visible, _locked, and _min / _max or _valid.

\* the values of T, and std::numeric_limits<T>::min() / max()
Vals == 0..MaxVal
TMin == 0
TMax == MaxVal
\* the enumerators of E
Enums == 0..(EnumSize - 1)

Get(p) == p.value

IsOptionVisible(p) == p.visible

IsLocked(p) == p.locked

\* RangeConfigParam, EnumConfigParam, BoolConfigParam / ConfigParam
vIsValid(p, value) ==
    CASE p.kind = "Range" -> value >= p.min /\ value <= p.max
      [] p.kind = "Enum" -> value \in p.valid
      [] OTHER -> TRUE

\* variant: a locked option is treated like an unlocked one
MutIsValid(p, value) ==
    IF ~IsOptionVisible(p) THEN FALSE
    ELSE vIsValid(p, value)

IsValid(p, value) ==
    IF ~IsOptionVisible(p) THEN FALSE
    ELSE IF IsLocked(p) THEN value = p.value
    ELSE vIsValid(p, value)

\* variant: the lock is not looked at
MutSet(p, value) ==
    IF vIsValid(p, value) /\ IsOptionVisible(p)
    THEN [ok |-> TRUE, p |-> [p EXCEPT !.value = value]]
    ELSE [ok |-> FALSE, p |-> p]

\* Set: the value returned and the parameter afterwards
Set(p, value) ==
    IF IsLocked(p) THEN [ok |-> FALSE, p |-> p]
    ELSE IF IsValid(p, value) THEN [ok |-> TRUE, p |-> [p EXCEPT !.value = value]]
    ELSE [ok |-> FALSE, p |-> p]

SetOptionVisible(p, visible) == [p EXCEPT !.visible = visible]

Lock(p, value) ==
    LET r == Set([p EXCEPT !.locked = FALSE], value)
    IN  [ok |-> r.ok, p |-> [r.p EXCEPT !.locked = TRUE]]

SetLocked(p, locked) == [p EXCEPT !.locked = locked]

\* ConfigParamBase::FromIni for T = int / bool: has is ini.HasValue(...),
\* value what GetInteger / GetBoolean returns
FromIni(p, has, value) ==
    IF has THEN [ok |-> TRUE, p |-> Set(p, value).p] ELSE [ok |-> FALSE, p |-> p]

\* variant: the bounds are stored and the value is left alone
MutSetRange(p, minval, maxval) ==
    [SetOptionVisible(p, TRUE) EXCEPT !.min = minval, !.max = maxval]

SetRange(p, minval, maxval) ==
    LET q == [SetOptionVisible(p, TRUE) EXCEPT !.min = minval, !.max = maxval]
        v1 == IF q.value < q.min THEN q.min ELSE q.value
        v2 == IF v1 > q.max THEN q.max ELSE v1
    IN  [q EXCEPT !.value = v2]

SetMin(p, minval) == SetRange(p, minval, p.max)

SetMax(p, maxval) == SetRange(p, p.min, maxval)

Toggle(p) ==
    LET q == IF Get(p) THEN Set(p, FALSE).p ELSE Set(p, TRUE).p
    IN  [ok |-> Get(q), p |-> q]

\* the first valid enumerator, E{} when there is none
GetFirstValid(p) ==
    IF p.valid = {} THEN 0
    ELSE CHOOSE e \in p.valid : \A o \in p.valid : e <= o

ReplaceValidSet(p, valid) ==
    LET q == [p EXCEPT !.valid = valid]
    IN  IF IsOptionVisible(q) /\ ~IsValid(q, q.value)
        THEN [q EXCEPT !.value = GetFirstValid(q)]
        ELSE q

AddToValidSet(p, value) == [p EXCEPT !.valid = @ \cup {value}]

\* variant: the value is removed from the set and the current value stays
MutRemoveFromValidSet(p, value) == [p EXCEPT !.valid = @ \ {value}]

RemoveFromValidSet(p, value) ==
    LET q == [p EXCEPT !.valid = @ \ {value}]
    IN  IF IsOptionVisible(q) /\ ~IsValid(q, q.value)
        THEN [q EXCEPT !.value = GetFirstValid(q)]
        ELSE q

\* SetFromString and EnumConfigParam::FromIni: the tag of enumerator i is i,
\* any other string is -1; has is ini.HasValue(...)
SetFromString(p, tag) ==
    IF tag \in Enums THEN [ok |-> TRUE, p |-> Set(p, tag).p]
    ELSE [ok |-> FALSE, p |-> p]

EnumFromIni(p, has, tag) ==
    IF has THEN SetFromString(p, tag) ELSE [ok |-> FALSE, p |-> p]

\* the constructors
RangeConfigParam(value) ==
    [NoParam EXCEPT !.kind = "Range", !.value = value, !.min = TMin, !.max = TMax]

RangeConfigParamMinMax(value, minval, maxval) ==
    SetRange(RangeConfigParam(value), minval, maxval)

BoolConfigParam(value) == [NoParam EXCEPT !.kind = "Bool", !.value = value]

EnumConfigParam(value) ==
    [NoParam EXCEPT !.kind = "Enum", !.value = value, !.valid = Enums]

LockedConfigParam(value) ==
    Lock([NoParam EXCEPT !.kind = "Plain", !.value = value], value).p

\* ------------------------------------------------------- runtime patches
\* (game_runtime_patches.cpp).  game_config maps the name of a patch
\* parameter to the parameter.  A PatchArg names its parameter, its command
\* line argument and its default value.  A command line is a sequence of
\* tokens [name, ok, value]: ok tells whether the value parses as a number.
\* An INI file is the set of keys that have a value, and the values.

\* ConfigParam<T>: a parameter with no restriction on the value
ConfigParam(value) == [NoParam EXCEPT !.kind = "Plain", !.value = value]

PatchNames == <<"EncounterRandomnessAlert", "MonSca", "EXPlus", "GuardRevamp">>

\* the values a patch parameter is given: 0 (off) or a switch / variable id
PatchVals == {0, 1}

\* the patch_args arrays: EncounterRandomnessAlert with two arguments, the
\* other patches with their first one
patch_args(patch) ==
    CASE patch = "EncounterRandomnessAlert" ->
           << [config_param |-> "patch_encounter_random_alert_sw",
               cmd_arg |-> "-sw", default_value |-> 0],
              [config_param |-> "patch_encounter_random_alert_var",
               cmd_arg |-> "-var", default_value |-> 1] >>
      [] patch = "MonSca" ->
           << [config_param |-> "patch_monsca_maxhp",
               cmd_arg |-> "-maxhp", default_value |-> 1] >>
      [] patch = "EXPlus" ->
           << [config_param |-> "patch_explus_var",
               cmd_arg |-> "-var", default_value |-> 1] >>
      [] OTHER ->
           << [config_param |-> "patch_guardrevamp_normal",
               cmd_arg |-> "-normal", default_value |-> 1] >>

\* the patch parameters in the order the four arrays list them
PatchKeys ==
    Flatten([i \in 1..Len(PatchNames) |->
                [j \in 1..Len(patch_args(PatchNames[i])) |->
                    patch_args(PatchNames[i])[j].config_param]])

PatchKeySet == {PatchKeys[i] : i \in 1..Len(PatchKeys)}

\* Player::game_config as constructed: every patch parameter 0
Game_ConfigGame == [k \in PatchKeySet |-> ConfigParam(0)]

\* variant: the arguments are locked with the value they have
MutLockPatchArguments(cfg, args) ==
    [k \in DOMAIN cfg |->
        IF \E i \in 1..Len(args) : args[i].config_param = k
        THEN SetLocked(cfg[k], TRUE) ELSE cfg[k]]

RECURSIVE LockPatchArguments(_, _)
LockPatchArguments(cfg, args) ==
    IF args = <<>> THEN cfg
    ELSE LockPatchArguments(
             [cfg EXCEPT ![Head(args).config_param] = Lock(@, 0).p], Tail(args))

\* the loops of ParsePatchArguments that set every argument to 0 (off) or to
\* its default value (on)
RECURSIVE SetEach(_, _, _)
SetEach(cfg, args, off) ==
    IF args = <<>> THEN cfg
    ELSE SetEach([cfg EXCEPT ![Head(args).config_param] =
                      Set(@, IF off THEN 0 ELSE Head(args).default_value).p],
                 Tail(args), off)

\* CmdlineParser::ParseNext(arg, 1, name): the next token has this name
ParseNext(tokens, names) == tokens # <<>> /\ Head(tokens).name \in names

\* CmdlineArg::ArgIsOff / ArgIsOn: the --no- form of a flag, or the other
ArgIsOff(arg1) ==
    arg1.name \in {"--no-patch-encounter-alert", "--no-patch-monsca",
                  "--no-patch-explus", "--no-patch-guardrevamp"}

ArgIsOn(arg1) == ~ArgIsOff(arg1)

\* one pass of the for loop inside the do-while, from argument i on
RECURSIVE ParsePass(_, _, _)
ParsePass(st, args, i) ==
    IF i > Len(args) THEN st
    ELSE IF ParseNext(st.tokens, {args[i].cmd_arg})
         THEN LET arg1 == Head(st.tokens)
                  c == IF arg1.ok
                       THEN [st.cfg EXCEPT ![args[i].config_param] =
                                               Set(@, arg1.value).p]
                       ELSE st.cfg
              IN  ParsePass([cfg |-> c, tokens |-> Tail(st.tokens), parsed |-> TRUE],
                            args, i + 1)
         ELSE ParsePass(st, args, i + 1)

\* do { ... } while (parsed)
RECURSIVE ParseLoop(_, _)
ParseLoop(st, args) ==
    LET r == ParsePass([st EXCEPT !.parsed = FALSE], args, 1)
    IN  IF r.parsed THEN ParseLoop(r, args) ELSE r

\* ParsePatchArguments with the flag token arg1 and the tokens after it
ParsePatchArguments(cfg, tokens, arg1, args) ==
    IF ArgIsOff(arg1)
    THEN [ret |-> TRUE, cfg |-> SetEach(cfg, args, TRUE), tokens |-> tokens]
    ELSE IF ArgIsOn(arg1)
    THEN LET r == ParseLoop([cfg |-> SetEach(cfg, args, FALSE), tokens |-> tokens,
                             parsed |-> FALSE], args)
         IN  [ret |-> TRUE, cfg |-> r.cfg, tokens |-> r.tokens]
    ELSE [ret |-> FALSE, cfg |-> cfg, tokens |-> tokens]

\* lcf::INIReader::HasValue / GetInteger for the key of a patch parameter
HasValue(ini, k) == k \in ini.has

GetInteger(ini, k) == IF HasValue(ini, k) THEN ini.value[k] ELSE 0

\* the loop of ParsePatchFromIni: acc is patch_override, the configuration
\* and the keys looked up so far
RECURSIVE FromIniEach(_, _, _)
FromIniEach(acc, ini, args) ==
    IF args = <<>> THEN acc
    ELSE LET k == Head(args).config_param
             r == FromIni(acc.cfg[k], HasValue(ini, k), GetInteger(ini, k))
         IN  FromIniEach([ret |-> acc.ret \/ r.ok,
                          cfg |-> [acc.cfg EXCEPT ![k] = r.p],
                          calls |-> Append(acc.calls, k)],
                         ini, Tail(args))

\* variant: the arguments after the first one found in the INI are skipped
MutParsePatchFromIni(cfg, ini, args) ==
    LET found == {i \in 1..Len(args) : HasValue(ini, args[i].config_param)}
        last == IF found = {} THEN Len(args)
                ELSE CHOOSE i \in found : \A j \in found : i <= j
    IN  FromIniEach([ret |-> FALSE, cfg |-> cfg, calls |-> <<>>], ini,
                    SubSeq(args, 1, last))

ParsePatchFromIni(cfg, ini, args) ==
    FromIniEach([ret |-> FALSE, cfg |-> cfg, calls |-> <<>>], ini, args)

\* fmt::format("{} ({}, ...)", name, values): the text, as its two parts
PatchText(cfg, args) ==
    [name |-> args[1].config_param,
     values |-> [i \in 1..Len(args) |-> Get(cfg[args[i].config_param])]]

PrintPatch(cfg, patches, args) ==
    LET is_set == \E i \in 1..Len(args) : Get(cfg[args[i].config_param]) > 0
    IN  IF ~is_set THEN patches
        ELSE IF Len(args) = 1
        THEN Append(patches, [name |-> args[1].config_param,
                              values |-> <<Get(cfg[args[1].config_param])>>])
        ELSE Append(patches, PatchText(cfg, args))

LockPatchesAsDiabled(cfg) ==
    LockPatchArguments(
        LockPatchArguments(
            LockPatchArguments(
                LockPatchArguments(cfg, patch_args("EncounterRandomnessAlert")),
                patch_args("MonSca")),
            patch_args("EXPlus")),
        patch_args("GuardRevamp"))

\* cp is the command line from the parser's position on
ParseFromCommandLine(cfg, cp) ==
    IF ParseNext(cp, {"--patch-encounter-alert", "--no-patch-encounter-alert"})
    THEN ParsePatchArguments(cfg, Tail(cp), Head(cp),
                             patch_args("EncounterRandomnessAlert"))
    ELSE IF ParseNext(cp, {"--patch-monsca", "--no-patch-monsca"})
    THEN ParsePatchArguments(cfg, Tail(cp), Head(cp), patch_args("MonSca"))
    ELSE IF ParseNext(cp, {"--patch-explus", "--no-patch-explus"})
    THEN ParsePatchArguments(cfg, Tail(cp), Head(cp), patch_args("EXPlus"))
    ELSE IF ParseNext(cp, {"--patch-guardrevamp", "--no-patch-guardrevamp"})
    THEN ParsePatchArguments(cfg, Tail(cp), Head(cp), patch_args("GuardRevamp"))
    ELSE [ret |-> FALSE, cfg |-> cfg, tokens |-> cp]

ParseFromIni(cfg, ini) ==
    LET r1 == ParsePatchFromIni(cfg, ini, patch_args("EncounterRandomnessAlert"))
        r2 == ParsePatchFromIni(r1.cfg, ini, patch_args("MonSca"))
        r3 == ParsePatchFromIni(r2.cfg, ini, patch_args("EXPlus"))
        r4 == ParsePatchFromIni(r3.cfg, ini, patch_args("GuardRevamp"))
    IN  [ret |-> r1.ret \/ r2.ret \/ r3.ret \/ r4.ret,
         cfg |-> r4.cfg,
         calls |-> r1.calls \o r2.calls \o r3.calls \o r4.calls]

DetermineActivePatches(cfg, patches) ==
    PrintPatch(cfg,
        PrintPatch(cfg,
            PrintPatch(cfg,
                PrintPatch(cfg, patches, patch_args("EncounterRandomnessAlert")),
                patch_args("MonSca")),
            patch_args("EXPlus")),
        patch_args("GuardRevamp"))

\* one operation on the parameter: its name, input, result and effect; arg
\* also keeps the value, lock and visibility before the operation
ParamStep(name, in, r, q) ==
    /\ param.kind # "none"
    /\ op' = name
    /\ arg' = [in |-> in, old |-> param.value, wasLocked |-> param.locked,
               wasVisible |-> param.visible]
    /\ ret' = r
    /\ param' = q
    /\ UNCHANGED <<calls, entries, fd, inb, gin, outb, gout, rd, game_config>>

\* the values a parameter of this kind takes
ValuesOf(p) ==
    CASE p.kind = "Bool" -> BOOLEAN
      [] p.kind = "Enum" -> Enums
      [] OTHER -> Vals

DoSet ==
    \E value \in ValuesOf(param) :
        ParamStep("Set", value, Set(param, value).ok, Set(param, value).p)

DoLock ==
    \E value \in ValuesOf(param) :
        ParamStep("Lock", value, Lock(param, value).ok, Lock(param, value).p)

DoSetLocked ==
    \E locked \in BOOLEAN :
        ParamStep("SetLocked", locked, TRUE, SetLocked(param, locked))

DoSetOptionVisible ==
    \E visible \in BOOLEAN :
        ParamStep("SetOptionVisible", visible, TRUE, SetOptionVisible(param, visible))

DoFromIni ==
    /\ param.kind \in {"Range", "Bool", "Plain"}
    /\ \E has \in BOOLEAN : \E value \in ValuesOf(param) :
         ParamStep("FromIni", value, FromIni(param, has, value).ok,
                   FromIni(param, has, value).p)

DoSetRange ==
    /\ param.kind = "Range"
    /\ \E minval \in Vals : \E maxval \in Vals :
         ParamStep("SetRange", <<minval, maxval>>, TRUE,
                   SetRange(param, minval, maxval))

DoSetMin ==
    /\ param.kind = "Range"
    /\ \E minval \in Vals : ParamStep("SetMin", minval, TRUE, SetMin(param, minval))

DoSetMax ==
    /\ param.kind = "Range"
    /\ \E maxval \in Vals : ParamStep("SetMax", maxval, TRUE, SetMax(param, maxval))

DoToggle ==
    /\ param.kind = "Bool"
    /\ ParamStep("Toggle", 0, Toggle(param).ok, Toggle(param).p)

DoReplaceValidSet ==
    /\ param.kind = "Enum"
    /\ \E valid \in SUBSET Enums :
         ParamStep("ReplaceValidSet", valid, TRUE, ReplaceValidSet(param, valid))

DoAddToValidSet ==
    /\ param.kind = "Enum"
    /\ \E value \in Enums :
         ParamStep("AddToValidSet", value, TRUE, AddToValidSet(param, value))

DoRemoveFromValidSet ==
    /\ param.kind = "Enum"
    /\ \E value \in Enums :
         ParamStep("RemoveFromValidSet", value, TRUE, RemoveFromValidSet(param, value))

DoSetFromString ==
    /\ param.kind = "Enum"
    /\ \E tag \in Enums \cup {-1} :
         ParamStep("SetFromString", tag, SetFromString(param, tag).ok,
                   SetFromString(param, tag).p)

DoEnumFromIni ==
    /\ param.kind = "Enum"
    /\ \E has \in BOOLEAN : \E tag \in Enums \cup {-1} :
         ParamStep("FromIni", tag, EnumFromIni(param, has, tag).ok,
                   EnumFromIni(param, has, tag).p)

\* the parameters as constructed
ParamInit ==
    /\ op = "init"
    /\ ret = 0
    /\ calls = <<>>
    /\ entries = <<>>
    /\ fd = NoFd
    /\ inb = NoIn
    /\ gin = NoGin
    /\ outb = NoOut
    /\ gout = NoGout
    /\ rd = NoRd
    /\ game_config = Game_ConfigGame
    /\ param \in ({RangeConfigParam(v) : v \in Vals}
                  \cup {RangeConfigParamMinMax(v, lo, hi) : v \in Vals, lo \in Vals,
                                                           hi \in Vals}
                  \cup {BoolConfigParam(b) : b \in BOOLEAN}
                  \cup {EnumConfigParam(e) : e \in Enums}
                  \cup {LockedConfigParam(v) : v \in Vals})
    /\ arg = [in |-> 0, old |-> param.value, wasLocked |-> param.locked,
              wasVisible |-> param.visible]

ParamNext ==
    \/ DoSet
    \/ DoLock
    \/ DoSetLocked
    \/ DoSetOptionVisible
    \/ DoFromIni
    \/ DoSetRange
    \/ DoSetMin
    \/ DoSetMax
    \/ DoToggle
    \/ DoReplaceValidSet
    \/ DoAddToValidSet
    \/ DoRemoveFromValidSet
    \/ DoSetFromString
    \/ DoEnumFromIni

ParamSpec == ParamInit /\ [][ParamNext]_vars

\* ------------------------------------------------------------ typed reads
\* (filesystem_stream.h).  A signed object is an integer; an unsigned object
\* is its bytes, least significant first.  Persisted and in-memory bytes are
\* sequences in address order.

SwappedTypes == {"int16_t", "uint16_t", "int32_t", "uint32_t"}

\* sizeof(T)
SizeOf(type) == IF type \in {"int16_t", "uint16_t"} THEN 2 ELSE 4

IsSigned(type) == type \in {"int16_t", "int32_t"}

Hosts == {"little", "big"}

\* byte values the persisted values are built from
ByteSamples == {0, 1, 127, 128, 255}

Reverse(q) == [i \in 1..Len(q) |-> q[Len(q) + 1 - i]]

\* conversion of a signed value to the unsigned type of n bytes (modulo 2^8n)
ToUnsigned(v, n) == [i \in 1..n |-> (v \div (256 ^ (i - 1))) % 256]

RECURSIVE LowValue(_, _)
\* the value of the n low bytes of u
LowValue(u, n) == IF n = 0 THEN 0 ELSE u[1] + 256 * LowValue(Tail(u), n - 1)

\* conversion of an unsigned value of n bytes to the signed type (two's
\* complement)
ToSigned(u, n) ==
    LowValue(u, n - 1)
    + (IF u[n] >= 128 THEN u[n] - 256 ELSE u[n]) * (256 ^ (n - 1))

\* the object an n-byte memory image holds on the host, and back
FromMemory(mem, host) == IF host = "big" THEN Reverse(mem) ELSE mem
ToMemory(u, host) == IF host = "big" THEN Reverse(u) ELSE u

\* Utils::SwapByteOrder: the bytes of the unsigned value are exchanged on a
\* big-endian host and left alone on a little-endian one
SwapByteOrder(u, host) == IF host = "big" THEN Reverse(u) ELSE u

\* Read0: sizeof(T) raw bytes into the object; success when all were read
Read0(type, bytes, host) ==
    LET n == SizeOf(type)
        u == FromMemory(SubSeq(bytes, 1, n), host)
    IN  [ok |-> Len(bytes) >= n,
         obj |-> IF IsSigned(type) THEN ToSigned(u, n) ELSE u]

\* variant: the swapped temporary of a signed read is not stored back
MutReadIntoObj(type, bytes, host) ==
    LET r == Read0(type, bytes, host)
    IN  IF IsSigned(type) THEN r
        ELSE [ok |-> r.ok, obj |-> SwapByteOrder(r.obj, host)]

\* ReadIntoObj for int16_t / int32_t (through the unsigned temporary uobj) and
\* for uint16_t / uint32_t
ReadIntoObj(type, bytes, host) ==
    LET r == Read0(type, bytes, host)
        n == SizeOf(type)
    IN  IF IsSigned(type)
        THEN LET uobj == ToUnsigned(r.obj, n)
             IN  [ok |-> r.ok, obj |-> ToSigned(SwapByteOrder(uobj, host), n)]
        ELSE [ok |-> r.ok, obj |-> SwapByteOrder(r.obj, host)]

\* the typed write: the value is swapped to the persisted order and its
\* memory image written
TypedWrite(type, value, host) ==
    LET u == IF IsSigned(type) THEN ToUnsigned(value, SizeOf(type)) ELSE value
    IN  ToMemory(SwapByteOrder(u, host), host)

DoTypedWrite ==
    /\ rd.stage = "value"
    /\ rd' = [rd EXCEPT !.stage = "written",
                        !.bytes = TypedWrite(rd.type, rd.value, rd.host)]
    /\ op' = "TypedWrite"
    /\ arg' = rd.value
    /\ ret' = TRUE
    /\ UNCHANGED <<calls, entries, fd, inb, gin, outb, gout, param, game_config>>

DoReadIntoObj ==
    /\ rd.stage = "written"
    /\ LET r == ReadIntoObj(rd.type, rd.bytes, rd.host)
       IN  /\ rd' = [rd EXCEPT !.stage = "read", !.obj = r.obj, !.ok = r.ok]
           /\ ret' = r.ok
    /\ op' = "ReadIntoObj"
    /\ arg' = rd.bytes
    /\ UNCHANGED <<calls, entries, fd, inb, gin, outb, gout, param, game_config>>

\* a value of one of the swapped types on one host
ReadInit ==
    /\ op = "init"
    /\ arg = 0
    /\ ret = 0
    /\ calls = <<>>
    /\ entries = <<>>
    /\ fd = NoFd
    /\ inb = NoIn
    /\ gin = NoGin
    /\ outb = NoOut
    /\ gout = NoGout
    /\ param = NoParam
    /\ \E type \in SwappedTypes : \E host \in Hosts :
         \E u \in [1..SizeOf(type) -> ByteSamples] :
            rd = [NoRd EXCEPT !.stage = "value", !.type = type, !.host = host,
                              !.value = IF IsSigned(type)
                                        THEN ToSigned(u, SizeOf(type)) ELSE u]
    /\ game_config = Game_ConfigGame

ReadNext ==
    \/ DoTypedWrite
    \/ DoReadIntoObj

ReadSpec == ReadInit /\ [][ReadNext]_vars

\* -------------------------------------------- runtime patch operations

\* the flags of the four patches and a flag of another option
PatchFlag(patch) ==
    CASE patch = "EncounterRandomnessAlert" -> "encounter-alert"
      [] patch = "MonSca" -> "monsca"
      [] patch = "EXPlus" -> "explus"
      [] OTHER -> "guardrevamp"

\* the tokens that may follow the flag of a patch: an argument of the patch
\* with a number, or its first argument with a value that is no number
PatchTokens(patch) ==
    {[name |-> patch_args(patch)[i].cmd_arg, ok |-> TRUE, value |-> v] :
         i \in 1..Len(patch_args(patch)), v \in PatchVals}
      \cup {[name |-> patch_args(patch)[1].cmd_arg, ok |-> FALSE, value |-> 0]}

SeqsUpTo(S, n) == UNION {[1..m -> S] : m \in 0..n}

Flag(name) == [name |-> name, ok |-> FALSE, value |-> 0]

CmdlineChoices ==
    {<<Flag("--other")>>, <<>>}
      \cup {<<Flag("--no-patch-" \o PatchFlag(PatchNames[i]))>> : i \in 1..Len(PatchNames)}
      \cup UNION {{<<Flag("--patch-" \o PatchFlag(PatchNames[i]))>> \o ts :
                       ts \in SeqsUpTo(PatchTokens(PatchNames[i]), MaxTokens)} :
                  i \in 1..Len(PatchNames)}

\* INI files giving a value to at most MaxIniKeys patch keys
IniChoices ==
    UNION {{[has |-> ks, value |-> [k \in PatchKeySet |-> IF k \in ks THEN f[k] ELSE 0]] :
                f \in [ks -> PatchVals]} :
           ks \in {s \in SUBSET PatchKeySet : Cardinality(s) <= MaxIniKeys}}

\* one call into RuntimePatches: arg keeps the input and the configuration
\* before the call
PatchStep(name, in, r, cs, cfg) ==
    /\ op' = name
    /\ arg' = [in |-> in, old |-> game_config]
    /\ ret' = r
    /\ calls' = cs
    /\ game_config' = cfg
    /\ UNCHANGED <<entries, fd, inb, gin, outb, gout, param, rd>>

DoLockPatchesAsDiabled ==
    PatchStep("LockPatchesAsDiabled", <<>>, TRUE, <<>>,
              LockPatchesAsDiabled(game_config))

DoParseFromCommandLine ==
    \E cp \in CmdlineChoices :
        LET r == ParseFromCommandLine(game_config, cp)
        IN  PatchStep("ParseFromCommandLine", cp, r.ret, <<>>, r.cfg)

DoParseFromIni ==
    \E ini \in IniChoices :
        LET r == ParseFromIni(game_config, ini)
        IN  PatchStep("ParseFromIni", ini, r.ret, r.calls, r.cfg)

DoDetermineActivePatches ==
    \E patches \in {<<>>, <<[name |-> "patch_maniac", values |-> <<1>>]>>} :
        PatchStep("DetermineActivePatches", patches,
                  DetermineActivePatches(game_config, patches), <<>>, game_config)

PatchInit ==
    /\ op = "init"
    /\ arg = [in |-> <<>>, old |-> Game_ConfigGame]
    /\ ret = 0
    /\ calls = <<>>
    /\ entries = <<>>
    /\ fd = NoFd
    /\ inb = NoIn
    /\ gin = NoGin
    /\ outb = NoOut
    /\ gout = NoGout
    /\ param = NoParam
    /\ rd = NoRd
    /\ game_config = Game_ConfigGame

PatchNext ==
    \/ DoLockPatchesAsDiabled
    \/ DoParseFromCommandLine
    \/ DoParseFromIni
    \/ DoDetermineActivePatches

PatchSpec == PatchInit /\ [][PatchNext]_vars

\* ---------------------------------------------------------- specification

Init ==
    /\ op = "init"
    /\ arg = [fs |-> "none", path |-> <<>>]
    /\ ret = 0
    /\ calls = <<>>
    /\ entries = <<>>
    /\ fd = NoFd
    /\ inb = NoIn
    /\ gin = NoGin
    /\ outb = NoOut
    /\ gout = NoGout
    /\ param = NoParam
    /\ rd = NoRd
    /\ game_config = Game_ConfigGame

Next ==
    \/ DoNativeIsFile
    \/ DoNativeIsDirectory
    \/ DoNativeExists
    \/ DoNativeGetFilesize
    \/ DoNativeCreateInputStreambuffer
    \/ DoNativeGetDirectoryContent
    \/ DoNativeIsFeatureSupported
    \/ DoSafIsFile
    \/ DoSafIsDirectory
    \/ DoSafExists
    \/ DoSafGetFilesize
    \/ DoSafGetDirectoryContent
    \/ DoSafIsFeatureSupported
    \/ DoNativeProbe
    \/ DoSafProbe
    \/ DoSafCreateInputStreambuffer
    \/ DoInGet
    \/ DoSeekoff
    \/ GetSize
    \/ GetPosition
    \/ DestroyIn
    \/ DoSafCreateOutputStreambuffer
    \/ DoOutPut
    \/ DoOutFlush
    \/ DoDestroyOut

Spec == Init /\ [][Next]_vars

\* ------------------------------------------------------------------ claims

\* the bytes 1..n counted from file offset base
FileRange(base, n) == [i \in 1..n |-> base + i]

\* every byte delivered or buffered is the file's byte at the offset the
\* stream's position assigns to it
InputContentOk ==
    inb.alive =>
        /\ gin.consumed = FileRange(gin.origin, Len(gin.consumed))
        /\ inb.get = FileRange(fd.pos - Len(inb.get), Len(inb.get))

\* C1: seekoff(d, cur) at logical position p with u unread buffered bytes
\* hands d - u to lseek, so that it returns p + d and the stream continues at
\* file offset p + d (whenever p + d is a valid offset), after any reads,
\* refills and earlier seeks; when p + d is negative lseek fails and -1 is
\* returned.
C1_SeekCurLogical ==
    /\ InputContentOk
    /\ (op = "seekoff" /\ arg.dir = "cur") =>
          /\ gin.lseekOff = arg.offset - gin.unread
          /\ (gin.pre + arg.offset >= 0 =>
                 /\ ret = gin.pre + arg.offset
                 /\ fd.pos = gin.pre + arg.offset
                 /\ gin.origin = gin.pre + arg.offset
                 /\ inb.get = <<>>)
          /\ (gin.pre + arg.offset < 0 => ret = -1)

C1_Witness ==
    /\ op = "seekoff" /\ arg.dir = "cur"
    /\ arg.offset # 0
    /\ gin.unread > 0
    /\ gin.nseeks >= 2
    /\ gin.nreads >= 2
    /\ ret = gin.pre + arg.offset

\* C2: after a successful SafFilesystem::CreateInputStreambuffer the probe's n
\* bytes are the get area: the first n bytes delivered are the file's first n
\* bytes and come without a further read or seek, the first refill reads at
\* file offset n, and sequential reading delivers the file's bytes in order.
C2_ProbeForwarded ==
    /\ (op = "CreateInputStreambuffer" /\ ret = "buf") =>
          /\ inb.get = FileRange(0, gin.probe)
          /\ fd.pos = gin.probe
    /\ (inb.alive /\ gin.nseeks = 0) =>
          /\ gin.origin = 0
          /\ gin.consumed = FileRange(0, Len(gin.consumed))
          /\ fd.pos = Len(gin.consumed) + Len(inb.get)
          /\ (op = "sbumpc" /\ ret # EOF /\ Len(gin.consumed) <= gin.probe) =>
                (gin.nreads = 1 /\ calls = <<>>)
          /\ (op = "sbumpc" /\ gin.nreads = 2 /\ calls = <<"read">>) =>
                gin.readAt = gin.probe

C2_Witness ==
    /\ inb.alive /\ gin.nseeks = 0
    /\ gin.probe >= 2
    /\ gin.nreads >= 2
    /\ Len(gin.consumed) > gin.probe

\* the bytes requested of the low-level writes, in order
Requested(ws) == Flatten([i \in 1..Len(ws) |-> ws[i].req])

\* C3: k bytes written with k below the buffer capacity and no explicit flush:
\* the destructor passes all k bytes, in order, to one low-level write and
\* closes the descriptor after it.
C3_DestructorFlush ==
    (/\ op = "~FdStreamBufOut"
     /\ gout.flushes = 0
     /\ gout.ops < OutBufSize
     /\ Len(gout.sent) = gout.ops) =>
        /\ Requested(gout.wlog) = gout.sent
        /\ Requested(gout.wlog) = FileRange(0, gout.ops)
        /\ calls = (IF gout.ops = 0 THEN <<"close">> ELSE <<"write", "close">>)
        /\ fd.st = "closed" /\ fd.closes = 1
        /\ ~outb.alive

C3_Witness ==
    /\ op = "~FdStreamBufOut"
    /\ gout.flushes = 0
    /\ gout.ops = OutBufSize - 1
    /\ Len(gout.wlog) = 1
    /\ gout.wlog[1].req = FileRange(0, OutBufSize - 1)
    /\ calls = <<"write", "close">>

\* C4: once a low-level write was short the stream is in its failed state and
\* every later put or flush fails without a low-level write; whenever sync or
\* overflow discards a byte it returns its failure value, which put and flush
\* report.
C4_ShortWriteSticky ==
    /\ (outb.alive /\ gout.short) => gout.bad
    /\ (op \in {"put", "flush"} /\ gout.shortBefore) => (ret = -1 /\ calls = <<>>)
    /\ (op \in {"put", "flush", "~FdStreamBufOut"} /\ gout.dropped > 0) => gout.rc = -1
    /\ (op \in {"put", "flush"} /\ gout.dropped > 0) => ret = -1

C4_Witness ==
    /\ op = "put"
    /\ gout.shortBefore
    /\ gout.wlog # <<>>
    /\ ret = -1
    /\ calls = <<>>

SafMissing(path) == HostKind(MakePath(SafBase, path)) \in {"none", "ghost"}

\* C5 as stated: opening a non-existent path for input on the SAF backend
\* returns null and the handle resolution is the only bridge call.
C5_Original ==
    (op = "CreateInputStreambuffer" /\ arg.fs = "saf" /\ SafMissing(arg.path)) =>
        (ret = NullBuf /\ calls = <<"getHandleForPath">>)

\* C5 amended: opening a non-existent path for input on the SAF backend
\* returns null and leaves no descriptor open; the handle resolution is the
\* only bridge call when it yields null, and when the host gives a handle for
\* the inexistent target a descriptor is requested and, if one is returned,
\* one probe read is made, fails, and the descriptor is closed.
C5_MissingOpensNull ==
    (op = "CreateInputStreambuffer" /\ arg.fs = "saf" /\ SafMissing(arg.path)) =>
        /\ ret = NullBuf
        /\ ~inb.alive
        /\ fd.st # "open"
        /\ (get_jni_handle(arg.path) = Null => calls = <<"getHandleForPath">>)
        /\ (get_jni_handle(arg.path) # Null /\ FdNegative(arg.hfd)) =>
              calls = <<"getHandleForPath", "createInputFileDescriptor">>
        /\ (get_jni_handle(arg.path) # Null /\ ~FdNegative(arg.hfd)) =>
              /\ calls = <<"getHandleForPath", "createInputFileDescriptor",
                           "read", "close">>
              /\ fd.st = "closed" /\ fd.closes = 1

C5_Witness ==
    /\ op = "CreateInputStreambuffer" /\ arg.fs = "saf"
    /\ SafMissing(arg.path)
    /\ get_jni_handle(arg.path) # Null
    /\ calls = <<"getHandleForPath", "createInputFileDescriptor", "read", "close">>
    /\ ret = NullBuf

Count(cs, c) == Cardinality({i \in 1..Len(cs) : cs[i] = c})

\* C6: with a valid descriptor CreateInputStreambuffer issues exactly one
\* probe read; a negative result gives null with the descriptor closed and no
\* buffer, any other result a buffer; after a probe of zero bytes the first
\* read reports end of stream.
C6_ProbeRead ==
    /\ (op = "CreateInputStreambuffer" /\ arg.fs = "saf"
          /\ get_jni_handle(arg.path) # Null /\ ~FdNegative(arg.hfd)) =>
          /\ Count(calls, "read") = 1
          /\ gin.nreads = 1
          /\ (gin.probe < 0 =>
                 /\ ret = NullBuf
                 /\ calls = <<"getHandleForPath", "createInputFileDescriptor",
                              "read", "close">>
                 /\ fd.st = "closed" /\ fd.closes = 1
                 /\ ~inb.alive)
          /\ (gin.probe >= 0 =>
                 /\ ret = "buf"
                 /\ inb.alive
                 /\ fd.st = "open" /\ fd.closes = 0)
    /\ (op = "sbumpc" /\ gin.ops = 1 /\ gin.probe = 0 /\ fd.size = 0) => ret = EOF

C6_Witness ==
    /\ op = "sbumpc" /\ gin.ops = 1
    /\ gin.probe = 0 /\ fd.size = 0
    /\ inb.alive
    /\ ret = EOF

Missing(a) ==
    IF a.fs = "saf" THEN SafMissing(a.path) ELSE NativeType(a.path) = "Missing"

\* C7: for a path that does not exist, on both backends, Exists, IsFile and
\* IsDirectory return false, GetFilesize returns -1 and opening for read
\* returns a null stream buffer.
C7_MissingSentinels ==
    /\ (op \in {"IsFile", "IsDirectory", "IsDirectoryNoFollow", "Exists"}
          /\ Missing(arg)) => ret = FALSE
    /\ (op = "GetFilesize" /\ Missing(arg)) => ret = -1
    /\ (op = "CreateInputStreambuffer" /\ Missing(arg)) => ret = NullBuf
    /\ (op = "Probe" /\ Missing(arg)) =>
          ret = [exists |-> FALSE, isFile |-> FALSE, isDirectory |-> FALSE]

C7_Witness ==
    /\ op = "GetFilesize"
    /\ arg = [fs |-> "saf", path |-> <<"n">>]
    /\ ret = -1

\* the path resolves to an existing file or directory
Resolves(a) ==
    IF a.fs = "saf" THEN HostKind(MakePath(SafBase, a.path)) \in {"file", "dir"}
    ELSE NativeType(a.path) \in {"File", "Directory"}

\* the path is itself a file or a directory (on the native backend: it is
\* not a symbolic link)
IsFileOrDirectoryItself(a) ==
    IF a.fs = "saf" THEN HostKind(MakePath(SafBase, a.path)) \in {"file", "dir"}
    ELSE NativeLType(a.path) \in {"File", "Directory"}

\* C8 as stated: for every backend and every path that resolves to an
\* existing file or directory, Exists is true and exactly one of IsFile and
\* IsDirectory is true.
C8_Original ==
    (op = "Probe" /\ Resolves(arg)) =>
        (ret.exists /\ (ret.isFile # ret.isDirectory))

\* C8 amended: for every backend and every path that is itself a regular
\* file or a directory (not a symbolic link), Exists is true and exactly one
\* of IsFile and IsDirectory is true; NativeFilesystem::IsFile does not follow
\* symbolic links and is false for a link.
C8_ExistsXor ==
    /\ (op = "Probe" /\ IsFileOrDirectoryItself(arg)) =>
          (ret.exists /\ (ret.isFile # ret.isDirectory))
    /\ (op = "Probe" /\ arg.fs = "native"
          /\ NativeLType(arg.path) \in {"LinkToFile", "LinkToDirectory"}) =>
          ~ret.isFile

C8_Witness ==
    /\ op = "Probe"
    /\ arg = [fs |-> "native", path |-> <<"d">>]
    /\ ret = [exists |-> TRUE, isFile |-> FALSE, isDirectory |-> TRUE]

\* the path is an existing directory without entries
EmptyDirectory(a) ==
    IF a.fs = "saf"
    THEN /\ HostKind(MakePath(SafBase, a.path)) = "dir"
         /\ HostGetDirectoryContent(MakePath(SafBase, a.path)).names = <<>>
    ELSE /\ NativeType(a.path) = "Directory"
         /\ \A i \in 1..Len(NativeDirNames(a.path)) :
               NativeDirNames(a.path)[i] \in {".", ".."}

\* C9: GetDirectoryContent of an existing empty directory returns true and
\* appends no entry, on both backends.
C9_EmptyDirectory ==
    (op = "GetDirectoryContent" /\ EmptyDirectory(arg)) =>
        (ret = TRUE /\ entries = <<>>)

C9_Witness ==
    /\ op = "GetDirectoryContent"
    /\ arg.fs = "native" /\ arg.path = <<"e">>
    /\ ret = TRUE
    /\ entries = <<>>

\* C10: on both backends IsFeatureSupported(f) is true exactly when f is the
\* Write feature.
C10_OnlyWrite ==
    (op = "IsFeatureSupported") => (ret = (arg.path = "Write"))

C10_Witness ==
    /\ op = "IsFeatureSupported"
    /\ arg = [fs |-> "saf", path |-> "Symlink"]
    /\ ret = FALSE

\* C11: GetSize, on its first call (three seeks) or a later one (cached),
\* returns the file's size and leaves the logical read position where it was,
\* whatever part of the lookahead window was unread; GetPosition returns that
\* position.
C11_GetSizeKeepsPosition ==
    /\ InputContentOk
    /\ op = "GetSize" =>
          /\ Position = gin.pre
          /\ ret = fd.size
          /\ inb.size_cached /\ inb.size = fd.size
    /\ op = "GetPosition" =>
          /\ ret = gin.pre
          /\ Position = gin.pre

C11_Witness ==
    /\ op = "GetSize"
    /\ calls = <<"lseek", "lseek", "lseek">>
    /\ gin.unread > 0
    /\ gin.pre > 0 /\ gin.pre < fd.size
    /\ Position = gin.pre

\* C13: a descriptor obtained from the host is open exactly while a stream
\* buffer owns it and is closed once: by CreateInputStreambuffer when the
\* probe read fails, else by the owning buffer's destructor, as its last
\* call; no read, write or seek is made on a closed descriptor.
C13_ReleasedOnce ==
    /\ fd.closes <= 1
    /\ (fd.st = "open") <=> (inb.alive \/ outb.alive)
    /\ (fd.st = "closed") <=> (fd.closes = 1)
    /\ Count(calls, "close") <= 1
    /\ Count(calls, "close") = 1 => calls[Len(calls)] = "close"
    /\ (op = "CreateInputStreambuffer" /\ Count(calls, "read") = 1) =>
          IF gin.probe < 0
          THEN ret = NullBuf /\ fd.st = "closed" /\ Count(calls, "close") = 1
          ELSE ret = "buf" /\ fd.st = "open" /\ Count(calls, "close") = 0
    /\ op \in {"~FdStreamBufIn", "~FdStreamBufOut"} =>
          (fd.st = "closed" /\ Count(calls, "close") = 1)
    /\ (op \in {"sbumpc", "seekoff", "GetSize", "GetPosition", "put", "flush"}
         /\ calls # <<>>) => fd.st = "open"

C13_Witness ==
    /\ op = "~FdStreamBufIn"
    /\ fd.st = "closed" /\ fd.closes = 1
    /\ calls = <<"close">>

\* C18: a refill makes one read of the buffer's capacity; a result of 0 gives
\* end-of-stream, a negative result is logged and gives end-of-stream with
\* the stream buffer still usable, and a positive result r makes the r bytes
\* read the get area, the first of which is delivered.
C18_Underflow ==
    (op = "sbumpc" /\ calls # <<>>) =>
        /\ calls = <<"read">>
        /\ gin.rcount = InBufSize
        /\ gin.rres = 0 => (ret = EOF /\ ~gin.logged /\ inb.get = <<>>)
        /\ gin.rres < 0 => (ret = EOF /\ gin.logged /\ inb.get = <<>> /\ inb.alive)
        /\ gin.rres > 0 =>
              /\ <<ret>> \o inb.get = FileRange(gin.readAt, gin.rres)
              /\ ~gin.logged

C18_Witness ==
    /\ op = "sbumpc" /\ calls = <<"read">>
    /\ gin.rres > 0 /\ gin.rres < InBufSize
    /\ gin.nreads >= 3
    /\ Len(inb.get) = gin.rres - 1

\* C19: every seek makes one lseek and leaves the get area empty, also when
\* lseek fails or the seek is by 0; the first byte read after a seek comes
\* from a refill at the descriptor's offset after the seek.
C19_SeekDropsWindow ==
    /\ op = "seekoff" =>
          (calls = <<"lseek">> /\ inb.get = <<>> /\ gin.origin = fd.pos)
    /\ (/\ op = "sbumpc" /\ gin.nseeks >= 1
        /\ (gin.consumed = <<>> \/ (Len(gin.consumed) = 1 /\ ret # EOF))) =>
          /\ calls = <<"read">>
          /\ gin.readAt = gin.origin
          /\ ret # EOF => ret = gin.origin + 1

C19_Witness ==
    /\ op = "sbumpc" /\ gin.nseeks >= 1
    /\ gin.origin >= 1
    /\ gin.consumed = <<gin.origin + 1>>
    /\ calls = <<"read">>

\* the low-level writes of the last operation
LastWrites ==
    SubSeq(gout.wlog, Len(gout.wlog) - Count(calls, "write") + 1, Len(gout.wlog))

\* C20: overflow(c) writes the buffered span with one write; if that write is
\* short or fails it returns the failure value and writes nothing more, else
\* it writes c alone and returns c when that write took it; while no write
\* has failed, the bytes handed to the writes followed by the buffered ones
\* are the caller's bytes in order.
C20_Overflow ==
    /\ (op = "put" /\ calls # <<>>) =>
          /\ Len(LastWrites[1].req) = PutCapacity
          /\ IF IsShort(LastWrites[1])
             THEN ret = EOF /\ Len(LastWrites) = 1
             ELSE /\ Len(LastWrites) = 2
                  /\ LastWrites[2].req = <<arg>>
                  /\ (LastWrites[2].acc < 1) <=> (ret = EOF)
                  /\ ret # EOF => ret = arg
    /\ ~gout.short =>
          /\ Requested(gout.wlog) \o outb.put = gout.sent
          /\ Len(gout.sent) = gout.ops - gout.flushes

C20_Witness ==
    /\ op = "put" /\ calls = <<"write", "write">>
    /\ ret = arg
    /\ ~gout.short
    /\ Len(gout.wlog) >= 3
    /\ Requested(gout.wlog) = gout.sent

\* C14: Set(v) returns false when the option is locked, or not visible, or v
\* is outside what the option supports, and then the old value remains;
\* otherwise it returns true and Get() is v.  Lock and visibility are left
\* as they were.
C14_SetContract ==
    op = "Set" =>
        /\ ret = ~(arg.wasLocked \/ ~arg.wasVisible \/ ~vIsValid(param, arg.in))
        /\ ret => Get(param) = arg.in
        /\ ~ret => Get(param) = arg.old
        /\ IsLocked(param) = arg.wasLocked
        /\ IsOptionVisible(param) = arg.wasVisible

C14_Witness ==
    /\ op = "Set" /\ ret
    /\ param.kind = "Range" /\ param.min > TMin
    /\ Get(param) = arg.in /\ arg.in # arg.old

\* the operations on a parameter that may write its value
WriteOps ==
    {"Set", "Toggle", "FromIni", "SetFromString", "SetRange", "SetMin", "SetMax",
     "ReplaceValidSet", "RemoveFromValidSet"}

\* C15: an operation other than Lock / SetLocked made on a locked option
\* leaves the value returned by Get() as it was.
C15_LockedUnaltered ==
    (op \in WriteOps /\ arg.wasLocked) => Get(param) = arg.old

\* C16: after SetRange / SetMin / SetMax has left the minimum above the
\* maximum, IsOptionVisible() is false.
C16_EmptyRangeDisabled ==
    (op \in {"SetRange", "SetMin", "SetMax"} /\ param.min > param.max) =>
        ~IsOptionVisible(param)

\* C17: on an option that is not visible Set and Lock return false, and no
\* operation but SetOptionVisible changes the value returned by Get().
C17_InvisibleUnwritable ==
    (op # "init" /\ param.kind # "none" /\ ~arg.wasVisible) =>
        /\ op \in {"Set", "Lock"} => ret = FALSE
        /\ op # "SetOptionVisible" => Get(param) = arg.old

\* the unsigned temporary the value of the typed read goes through
Temporary ==
    IF IsSigned(rd.type) THEN ToUnsigned(rd.value, SizeOf(rd.type)) ELSE rd.value

\* C12: for int16_t, uint16_t, int32_t and uint32_t, on either host, the swap
\* applied twice gives the value back, the conversion through the unsigned
\* temporary loses nothing, and a value written by the typed write and read
\* back by ReadIntoObj is the original.
C12_SwapRoundTrip ==
    rd.stage # "none" =>
        /\ SwapByteOrder(SwapByteOrder(Temporary, rd.host), rd.host) = Temporary
        /\ IsSigned(rd.type) => ToSigned(Temporary, SizeOf(rd.type)) = rd.value
        /\ rd.stage = "written" => Len(rd.bytes) = SizeOf(rd.type)
        /\ rd.stage = "read" => (rd.ok /\ rd.obj = rd.value)

C12_Witness ==
    /\ rd.stage = "read"
    /\ rd.type = "int32_t" /\ rd.host = "big"
    /\ rd.value < 0
    /\ rd.bytes # Reverse(rd.bytes)
    /\ rd.obj = rd.value

SafOps ==
    {"IsFile", "IsDirectory", "Exists", "GetFilesize", "CreateInputStreambuffer",
     "CreateOutputStreambuffer", "GetDirectoryContent"}

\* what each SAF operation answers for a path that has no handle
SafSentinel(name) ==
    CASE name \in {"IsFile", "IsDirectory", "Exists", "GetDirectoryContent"} -> FALSE
      [] name = "GetFilesize" -> -1
      [] OTHER -> NullBuf

\* C21: every operation of the SAF backend resolves the handle exactly once,
\* as its first bridge call, on every call (three queries of one path make three
\* resolutions); when the handle is null the operation returns its missing
\* sentinel (false, -1 or null) and the resolution is its only bridge call.
C21_OneResolution ==
    /\ (op \in SafOps /\ arg.fs = "saf") =>
          /\ Count(calls, "getHandleForPath") = 1
          /\ calls[1] = "getHandleForPath"
          /\ (get_jni_handle(arg.path) = Null =>
                 /\ calls = <<"getHandleForPath">>
                 /\ ret = SafSentinel(op))
          /\ (get_jni_handle(arg.path) # Null /\ op # "CreateOutputStreambuffer"
                 /\ op # "CreateInputStreambuffer") => Len(calls) >= 2
    /\ (op = "Probe" /\ arg.fs = "saf") => Count(calls, "getHandleForPath") = 3

C21_Witness ==
    /\ op = "IsDirectory" /\ arg.fs = "saf"
    /\ get_jni_handle(arg.path) = Null
    /\ calls = <<"getHandleForPath">>
    /\ ret = FALSE

\* element handles (local references, string characters) held after the
\* first n calls of a call log
ElemRefs(cs, n) ==
    Count(SubSeq(cs, 1, n), "GetObjectArrayElement") - Count(SubSeq(cs, 1, n), "DeleteLocalRef")

CharRefs(cs, n) ==
    Count(SubSeq(cs, 1, n), "GetStringUTFChars")
        - Count(SubSeq(cs, 1, n), "ReleaseStringUTFChars")

\* C22: a successful SafFilesystem::GetDirectoryContent holds at most one
\* element handle at any time and none on return, releases each element's
\* characters in the call right after they were acquired (the copy lies
\* between), and appends exactly one entry per host element, in host order,
\* typed Directory iff the element's flag is non-zero.
C22_ElementHandles ==
    (op = "GetDirectoryContent" /\ arg.fs = "saf" /\ ret = TRUE) =>
        LET h == HostGetDirectoryContent(get_jni_handle(arg.path))
        IN  /\ \A n \in 0..Len(calls) :
                   /\ ElemRefs(calls, n) \in {0, 1}
                   /\ CharRefs(calls, n) \in {0, 1}
                   /\ CharRefs(calls, n) <= ElemRefs(calls, n)
            /\ ElemRefs(calls, Len(calls)) = 0
            /\ CharRefs(calls, Len(calls)) = 0
            /\ \A n \in 1..Len(calls) :
                   calls[n] = "GetStringUTFChars" =>
                       (n < Len(calls) /\ calls[n + 1] = "ReleaseStringUTFChars")
            /\ Count(calls, "GetObjectArrayElement") = Len(h.names)
            /\ Count(calls, "GetStringUTFChars") = Len(h.names)
            /\ Len(entries) = Len(h.names)
            /\ \A i \in 1..Len(entries) :
                   /\ entries[i].name = h.names[i]
                   /\ entries[i].type \in {"Regular", "Directory"}
                   /\ entries[i].type = "Directory" <=> h.types[i] # 0

C22_Witness ==
    /\ op = "GetDirectoryContent" /\ arg.fs = "saf" /\ ret = TRUE
    /\ Len(entries) = 3
    /\ entries[1].type = "Regular" /\ entries[2].type = "Directory"
    /\ Count(calls, "DeleteLocalRef") = 3

\* the entries a directory stream yielded, each with the type it reported,
\* without the pseudo-entries
NativeRead(path, types) ==
    SelectSeq([i \in 1..Len(NativeDirNames(path)) |->
                  [name |-> NativeDirNames(path)[i], type |-> types[i]]],
              LAMBDA e : e.name \notin {".", ".."})

\* C23: a successful NativeFilesystem::GetDirectoryContent yields one entry
\* per entry read except '.' and '..', in reading order; an entry is Directory
\* iff its metadata type is Directory, or the type is Unknown and the entry
\* (the name inside the listed directory) resolves to a directory with
\* symlinks followed; one probe is issued per entry of Unknown type and none
\* for the others.
C23_NativeClassification ==
    (op = "GetDirectoryContent" /\ arg.fs = "native" /\ ret = TRUE) =>
        LET read == NativeRead(arg.path, arg.types)
        IN  /\ Len(entries) = Len(read)
            /\ \A i \in 1..Len(read) :
                   /\ entries[i].name = read[i].name
                   /\ entries[i].type \in {"Regular", "Directory"}
                   /\ entries[i].type = "Directory" <=>
                          \/ read[i].type = "Directory"
                          \/ /\ read[i].type = "Unknown"
                             /\ NativeIsDirectory(
                                    MakePath(arg.path, <<read[i].name>>), TRUE)
            /\ Len(calls) = Cardinality({i \in 1..Len(read) : read[i].type = "Unknown"})

\* C24 as stated: in every state of a parameter, IsValid(v) is true iff
\* Set(v) made in that state would succeed.
C24_Original ==
    \A v \in ValuesOf(param) : IsValid(param, v) <=> Set(param, v).ok

\* the parameter as it was before a Set (Set writes nothing but the value)
BeforeSet == [param EXCEPT !.value = arg.old]

\* C24 amended: whenever Set(v) would succeed IsValid(v) is true, and on an
\* unlocked parameter IsValid(v) is true iff Set(v) would succeed; on a
\* locked parameter every Set fails while IsValid(v) is true exactly for the
\* current value of a visible parameter.  A Set that was made returned
\* accordingly.
C24_IsValidVsSet ==
    /\ \A v \in ValuesOf(param) :
           /\ Set(param, v).ok => IsValid(param, v)
           /\ ~IsLocked(param) => (IsValid(param, v) <=> Set(param, v).ok)
           /\ IsLocked(param) =>
                  /\ ~Set(param, v).ok
                  /\ IsValid(param, v) <=> (IsOptionVisible(param) /\ v = Get(param))
    /\ op = "Set" =>
           /\ ret => IsValid(BeforeSet, arg.in)
           /\ ~arg.wasLocked => (ret <=> IsValid(BeforeSet, arg.in))
           /\ arg.wasLocked =>
                  /\ ~ret
                  /\ IsValid(BeforeSet, arg.in) <=> (arg.wasVisible /\ arg.in = arg.old)

C24_Witness ==
    /\ op = "Set" /\ ~ret
    /\ arg.wasLocked /\ arg.wasVisible
    /\ arg.in = arg.old
    /\ IsValid(BeforeSet, arg.in)

\* C25: a RangeConfigParam whose bounds satisfy min <= max has
\* GetMin() <= Get() <= GetMax(), after construction and after every
\* operation made on it.
C25_ValueInRange ==
    (param.kind = "Range" /\ param.min <= param.max) =>
        (param.min <= Get(param) /\ Get(param) <= param.max)

C25_Witness ==
    /\ op = "SetRange" /\ param.kind = "Range"
    /\ param.min <= param.max
    /\ arg.old < param.min
    /\ Get(param) = param.min

ValidSetOps == {"RemoveFromValidSet", "ReplaceValidSet"}

\* C26 as stated: a visible, unlocked EnumConfigParam with a non-empty valid
\* set has its current value in the valid set, whatever was done to it.
C26_Original ==
    (param.kind = "Enum" /\ IsOptionVisible(param) /\ ~IsLocked(param)
         /\ param.valid # {}) =>
        Get(param) \in param.valid

\* C26 amended: RemoveFromValidSet / ReplaceValidSet made on a visible, unlocked
\* EnumConfigParam and leaving a valid value keeps a valid current value and
\* replaces an invalidated one by the first valid value; made on an invisible
\* or locked one it leaves the current value as it is; and no other operation
\* takes a current value that is in the valid set out of it.
C26_EnumValueValid ==
    param.kind = "Enum" =>
        /\ (op \in ValidSetOps /\ arg.wasVisible /\ ~arg.wasLocked
                /\ param.valid # {}) =>
               /\ Get(param) \in param.valid
               /\ Get(param) = (IF arg.old \in param.valid THEN arg.old
                                ELSE GetFirstValid(param))
        /\ (op \in ValidSetOps /\ (~arg.wasVisible \/ arg.wasLocked)) =>
               Get(param) = arg.old
        /\ (op \notin ValidSetOps /\ arg.old \in param.valid) =>
               Get(param) \in param.valid

C26_Witness ==
    /\ param.kind = "Enum" /\ op = "RemoveFromValidSet"
    /\ arg.wasVisible /\ ~arg.wasLocked
    /\ arg.in = arg.old
    /\ param.valid # {}
    /\ Get(param) = GetFirstValid(param) /\ Get(param) # arg.old

\* every patch parameter of a configuration is locked
AllLocked(cfg) == \A k \in PatchKeySet : IsLocked(cfg[k])

\* C27: LockPatchesAsDiabled leaves every patch parameter locked with value
\* 0; from then on the parameters stay locked and 0, a ParseFromCommandLine
\* or ParseFromIni call leaves the configuration as it was, and
\* DetermineActivePatches returns the patch list as it got it.
C27_LockedPatches ==
    /\ op = "LockPatchesAsDiabled" =>
           \A k \in PatchKeySet :
               IsLocked(game_config[k]) /\ Get(game_config[k]) = 0
    /\ AllLocked(arg.old) =>
           /\ AllLocked(game_config)
           /\ \A k \in PatchKeySet : Get(game_config[k]) = 0
           /\ op \in {"ParseFromCommandLine", "ParseFromIni"} =>
                  game_config = arg.old
           /\ op = "DetermineActivePatches" => ret = arg.in

C27_Witness ==
    /\ op = "ParseFromCommandLine"
    /\ AllLocked(arg.old)
    /\ Len(arg.in) = 2
    /\ arg.in[1].name = "--patch-monsca"
    /\ arg.in[2] = [name |-> "-maxhp", ok |-> TRUE, value |-> 1]
    /\ ret = TRUE
    /\ game_config = arg.old

\* C28: ParseFromIni looks up the key of every argument of the four patches,
\* in order, whatever the earlier lookups gave; it returns true iff the INI
\* has a value for at least one of the keys; and each parameter is what its
\* FromIni made of it, so the return value is true also when no value was
\* accepted.
C28_ParseFromIni ==
    op = "ParseFromIni" =>
        /\ calls = PatchKeys
        /\ ret = (\E k \in PatchKeySet : HasValue(arg.in, k))
        /\ \A k \in PatchKeySet :
               game_config[k] =
                   FromIni(arg.old[k], HasValue(arg.in, k), GetInteger(arg.in, k)).p
        /\ (AllLocked(arg.old) /\ arg.in.has # {}) =>
               (ret = TRUE /\ game_config = arg.old)

C28_Witness ==
    /\ op = "ParseFromIni"
    /\ AllLocked(arg.old)
    /\ arg.in.has = {"patch_guardrevamp_normal"}
    /\ arg.in.value["patch_guardrevamp_normal"] = 1
    /\ ret = TRUE
    /\ calls = PatchKeys
    /\ game_config = arg.old

====
